---- MODULE Spec2Model ----
(***************************************************************************)
(* DMA PWM for the Raspberry Pi (besp9510/dma_pwm): a model of the engine  *)
(* configuration, the channel pool, the control-block (CB) sequence        *)
(* generator and the DMA arming sequence of src/src/main/dma_pwm.c.        *)
(*                                                                         *)
(* Numbers.  The C code computes in float/double and converts to unsigned  *)
(* integers by truncation.  The model computes the same quantities as      *)
(* exact rationals and truncates them the same way; a float input is the   *)
(* pair (m, e) of its 24-bit significand and binary exponent, value        *)
(* m * 2^e.  32-bit unsigned temporaries that can exceed the range of      *)
(* TLC's 32-bit signed integers are kept as two 24-bit limbs.              *)
(***************************************************************************)
EXTENDS Integers, Sequences, FiniteSets, TLC

\* ------------------------------------------------------------------------
\* Program constants
\* ------------------------------------------------------------------------
NUM_DMA_CHANNELS == 7
DEFAULT_CLOCK_DIV == 50
DEFAULT_PWM_RNG == 100
DEFAULT_PAGES == 16
MAX_CLOCK_DIV == 4095
PAGE_SIZE == 4096
CB_SIZE == 32
MASK_SIZE == 4

ECHNLREQ == 1
EINVPW == 2
ENOFREECHNL == 3
EINVCHNL == 4
EINVDUTY == 5
EINVGPIO == 6
EFREQNOTMET == 7
EPWMNOTSET == 8
ENOPIVER == 9
EMAPFAIL == 10
ENOMEM == 12

Channels == 0 .. (NUM_DMA_CHANNELS - 1)
Bufs == {0, 1}

\* ------------------------------------------------------------------------
\* Arithmetic helpers
\* ------------------------------------------------------------------------
Pow2(k) == 2 ^ k

\* A wide natural below 2^48: value h * 2^24 + l with 0 <= h, l < 2^24.
W24 == Pow2(24)
Wide(h, l) == [h |-> h, l |-> l]

\* a * b for 0 <= a, b < 2^24 with a * b < 2^48 (12-bit schoolbook product)
WideMul(a, b) ==
    LET t0 == (a % 4096) * (b % 4096)
        t1 == (a \div 4096) * (b % 4096) + (a % 4096) * (b \div 4096)
        t2 == (a \div 4096) * (b \div 4096)
        ls == t0 + (t1 % 4096) * 4096
    IN  Wide(t2 + (t1 \div 4096) + (ls \div W24), ls % W24)

\* w * 2^s for 0 <= s <= 24, result below 2^48
WideShiftLeft(w, s) ==
    Wide(w.h * Pow2(s) + (w.l \div Pow2(24 - s)), (w.l % Pow2(24 - s)) * Pow2(s))

\* floor(w / 2^s) for 0 <= s
WideShiftRight(w, s) ==
    IF s >= 48 THEN Wide(0, 0)
    ELSE IF s >= 24 THEN Wide(0, w.h \div Pow2(s - 24))
    ELSE Wide(w.h \div Pow2(s),
              (w.l \div Pow2(s)) + (w.h % Pow2(s)) * Pow2(24 - s))

\* the i-th base-64 digit of w, i in 0 .. 7
WideDigit(w, i) ==
    IF i < 4 THEN (w.l \div Pow2(6 * i)) % 64
    ELSE (w.h \div Pow2(6 * (i - 4))) % 64

\* One step of long division by c (0 < c < 2^30) in base 64: the partial
\* remainder r < c is extended by one digit and divided by c.  Where
\* r * 64 could exceed 32-bit integers the digit is found by
\* comparing two-limb products (limbs of 20 bits).
L20 == Pow2(20)
Pair(n, k, d) ==
    LET lo == (n % L20) * k + d
    IN  [hi |-> (n \div L20) * k + (lo \div L20), lo |-> lo % L20]
PairLe(p, q) == p.hi < q.hi \/ (p.hi = q.hi /\ p.lo <= q.lo)
\* The digit is at most 5 above the estimate made from the high limbs.
DivDigitLow(r, digit, c) == Pair(r, 64, digit).hi \div ((c \div L20) + 1)
DivDigit(r, digit, c) ==
    IF c < Pow2(24) THEN (r * 64 + digit) \div c
    ELSE CHOOSE k \in DivDigitLow(r, digit, c) .. DivDigitLow(r, digit, c) + 5 :
             /\ PairLe(Pair(c, k, 0), Pair(r, 64, digit))
             /\ ~PairLe(Pair(c, k + 1, 0), Pair(r, 64, digit))
DivRest(r, digit, c, k) ==
    IF c < Pow2(24) THEN (r * 64 + digit) % c
    ELSE (Pair(r, 64, digit).hi - Pair(c, k, 0).hi) * L20
             + (Pair(r, 64, digit).lo - Pair(c, k, 0).lo)
\* acc = [q, r]: the quotient so far (wide) and the partial remainder
DivPush(acc, k, rest) ==
    [q |-> Wide(acc.q.h * 64 + (acc.q.l \div Pow2(18)),
                (acc.q.l % Pow2(18)) * 64 + k),
     r |-> rest]
DivStepOf(acc, digit, c) ==
    DivPush(acc, DivDigit(acc.r, digit, c),
            DivRest(acc.r, digit, c, DivDigit(acc.r, digit, c)))
\* (the accumulator is bound by a quantifier, so it is evaluated once)
DivStep(acc, digit, c) ==
    CHOOSE next \in {DivStepOf(a, digit, c) : a \in {acc}} : TRUE

\* [q, r]: floor(w / c) as a wide natural and w mod c, for 0 < c < 2^30
WideDivMod(w, c) ==
    DivStep(DivStep(DivStep(DivStep(DivStep(DivStep(DivStep(DivStep(
        [q |-> Wide(0, 0), r |-> 0],
        WideDigit(w, 7), c), WideDigit(w, 6), c), WideDigit(w, 5), c),
        WideDigit(w, 4), c), WideDigit(w, 3), c), WideDigit(w, 2), c),
        WideDigit(w, 1), c), WideDigit(w, 0), c)

\* floor(w / c) for 0 < c < 2^30, as a wide natural
WideDiv(w, c) == WideDivMod(w, c).q

\* A 32-bit unsigned value is a wide natural with h < 256.
U32(n) == Wide(n \div W24, n % W24)
U32ToInt(u) == u.h * W24 + u.l
U32LessThan1(u) == u.h = 0 /\ u.l = 0
U32GreaterThan(u, n) ==
    u.h > (n \div W24) \/ (u.h = (n \div W24) /\ u.l > (n % W24))

\* Conversion of a non-negative floating value (already truncated) to
\* unsigned int.  A value of 2^32 or more is out of range: the conversion is
\* undefined, and a build either saturates (ARM VCVT) or keeps the low 32
\* bits (x86-64 CVTTSD2SI to 64 bits, then truncation).
ConvOutcomes == {"saturate", "wrap"}

FloatToUint(w, conv) ==
    IF w.h < 256 THEN w
    ELSE IF conv = "saturate" THEN Wide(255, W24 - 1)
    ELSE Wide(w.h % 256, w.l)

\* ------------------------------------------------------------------------
\* float values used as pulse-width arguments: significand m, exponent e
\* ------------------------------------------------------------------------
Float(m, e) == [m |-> m, e |-> e]
PW_0_3     == Float(10066330, -25)  \* 0.3f
PW_0_4     == Float(13421773, -25)  \* 0.4f  (MOTOR_PULSE_WIDTH)
PW_0_6     == Float(10066330, -24)  \* 0.6f
PW_5       == Float(10485760, -21)  \* 5.0f  (DEFAULT_PULSE_WIDTH)
PW_10      == Float(10485760, -20)  \* 10.0f
PW_20      == Float(10485760, -19)  \* 20.0f
PW_50      == Float(13107200, -18)  \* 50.0f (SERVO_PULSE_WIDTH)
PW_5000    == Float(10240000, -11)  \* 5000.0f (LED_PULSE_WIDTH)
PW_2P32    == Float(8388608, 9)     \* 4294967296.0f
PW_MAX     == Float(8587837, 12)    \* 35175780352.0f = (float)35175782146
PW_OVERMAX == Float(8587838, 12)    \* 35175784448.0f, the next float up

\* ------------------------------------------------------------------------
\* Single-precision arithmetic.  A float is Float(m, e) with 2^23 <= |m| <
\* 2^24 (or m = 0); every operation rounds its exact result to the nearest
\* float, ties to even, as IEEE 754 binary32 does.
\* ------------------------------------------------------------------------
FloatZero == Float(0, 0)

\* The float nearest to w * 2^e (w > 0 wide); sticky says that the exact
\* value lies strictly above w * 2^e, below (w + 1) * 2^e.  With s low bits
\* to drop (bits is the length of the upper limb that is not 0), low is
\* their value and half the weight of the highest of them.
RoundWide(w, e, sticky) ==
    LET top  == IF w.h > 0 THEN w.h ELSE w.l
        bits == CHOOSE k \in 1 .. 24 : top < Pow2(k) /\ top >= Pow2(k - 1)
        s    == IF w.h > 0 THEN bits ELSE bits - 24
        low  == IF s >= 24 THEN Wide(w.h % Pow2(s - 24), w.l)
                ELSE Wide(0, w.l % Pow2(s))
        half == IF s - 1 >= 24 THEN Wide(Pow2(s - 25), 0)
                ELSE Wide(0, Pow2(s - 1))
        kept == WideShiftRight(w, s).l
        up   == \/ half.h < low.h
                \/ half.h = low.h /\ half.l < low.l
                \/ /\ half = low
                   /\ (sticky \/ kept % 2 = 1)
    IN  IF s <= 0 THEN Float(w.l * Pow2(-s), e + s)
        ELSE IF up /\ kept + 1 = W24 THEN Float(Pow2(23), e + s + 1)
        ELSE Float(kept + (IF up THEN 1 ELSE 0), e + s)

\* (float)n for an unsigned n given as a wide natural
FloatOfWide(w) == IF w.h = 0 /\ w.l = 0 THEN FloatZero ELSE RoundWide(w, 0, FALSE)
FloatOfInt(n) == FloatOfWide(Wide(0, n))
FloatNeg(x) == Float(-x.m, x.e)

\* a / b for floats a >= 0, b > 0: 25 quotient bits and the remainder dm.r
\* of a.m * 2^24 (or (2 * a.m - b.m) * 2^24 where a.m < b.m) by b.m
FloatDiv(a, b) ==
    IF a.m = 0 THEN FloatZero
    ELSE CHOOSE f \in
        {IF a.m >= b.m
         THEN RoundWide(dm.q, a.e - b.e - 24, dm.r # 0)
         ELSE RoundWide(Wide(dm.q.h + 1, dm.q.l), a.e - b.e - 25, dm.r # 0) :
         dm \in {WideDivMod(IF a.m >= b.m THEN Wide(a.m, 0)
                            ELSE Wide(2 * a.m - b.m, 0), b.m)}} : TRUE

\* a * b for floats a, b >= 0
FloatMul(a, b) ==
    IF a.m = 0 \/ b.m = 0 THEN FloatZero
    ELSE CHOOSE f \in {RoundWide(w, a.e + b.e, FALSE) :
                          w \in {WideMul(a.m, b.m)}} : TRUE

\* (int)x and x - (int)x < 0.5 for a float 0 <= x < 2^24
FloatTrunc(x) ==
    IF x.m = 0 \/ x.e <= -24 THEN 0
    ELSE IF x.e >= 0 THEN x.m * Pow2(x.e)
    ELSE x.m \div Pow2(-x.e)
FloatFracBelowHalf(x) ==
    IF x.m = 0 \/ x.e >= 0 THEN TRUE
    ELSE IF x.e <= -25 THEN TRUE
    ELSE 2 * (x.m % Pow2(-x.e)) < Pow2(-x.e)

\* x + 1.0f for a float 0 <= x < 2^24
FloatPlus1(x) ==
    IF x.m = 0 \/ x.e < -47 THEN Float(Pow2(23), -23)
    ELSE IF x.e > 0 THEN x
    ELSE IF x.e >= -23
    THEN RoundWide(Wide((x.m + Pow2(-x.e)) \div W24,
                        (x.m + Pow2(-x.e)) % W24), x.e, FALSE)
    ELSE RoundWide(Wide(Pow2(-24 - x.e), x.m), x.e, FALSE)

\* a < b for floats a and b >= 0
FloatLess(a, b) ==
    IF b.m = 0 THEN a.m < 0
    ELSE IF a.m <= 0 THEN TRUE
    ELSE a.e < b.e \/ (a.e = b.e /\ a.m < b.m)

\* pulse_width < 0.4 : no float equals the double 0.4, so the comparison
\* is the rational one, 5 * m * 2^e < 2.
FloatBelow0_4(pw) == pw.e < 0 /\ pw.e >= -30 /\ 5 * pw.m < Pow2(1 - pw.e)

\* pulse_width > 35175782146 : the integer constant is converted to float,
\* which gives PW_MAX; normalised floats order by (e, m).
FloatAbovePwMax(pw) ==
    pw.e > PW_MAX.e \/ (pw.e = PW_MAX.e /\ pw.m > PW_MAX.m)

\* floor(pulse_width * 500): microseconds to ticks of the 500 MHz clock
PwTimes500(pw) ==
    IF pw.e >= 0 THEN WideShiftLeft(WideMul(pw.m, 500), pw.e)
    ELSE WideShiftRight(WideMul(pw.m, 500), -pw.e)

\* ((pulse_width / 1000000.0) / pwm_rng) * DEFAULT_CLOCK_FREQ, truncated
ClockDivReal(pw, rng) ==
    IF pw.e >= 0 THEN WideDiv(PwTimes500(pw), rng)
    ELSE WideShiftRight(WideDiv(WideMul(pw.m, 500), rng), -pw.e)

\* (pulse_width / 1000000.0) * ((float)DEFAULT_CLOCK_FREQ / clock_div_temp),
\* truncated, for clock_div_temp = 1 and 4095.  (float)500e6 / 4095 is the
\* float 122100.125 = 976801 / 8, and 8 * 10^6 = 15625 * 2^9.
PwmRngReal(pw, div) ==
    IF div = 1 THEN PwTimes500(pw)
    ELSE IF pw.e >= 9
    THEN WideDiv(WideShiftLeft(WideMul(pw.m, 976801), pw.e - 9), 15625)
    ELSE WideShiftRight(WideDiv(WideMul(pw.m, 976801), 15625), 9 - pw.e)

\* ------------------------------------------------------------------------
\* Bounds and input sets of the model
\* ------------------------------------------------------------------------
\* config_pwm is called with 1 .. MaxPages pages, or with DEFAULT_PAGES
MaxPages == 2
\* at most MaxLeaks re-initialisations of a channel that is still requested
MaxLeaks == 1
\* the client of the life-cycle specifications holds at most MaxHeld channels
MaxHeld == 2
\* the GPIO pins the model drives and observes
Pins == {5, 26}

\* ------------------------------------------------------------------------
\* State
\* ------------------------------------------------------------------------
VARIABLES
    clock_div,            \* static unsigned int clock_div
    pwm_rng,              \* static unsigned int pwm_rng
    allocated_pages,      \* static int allocated_pages
    pulse_width_us,       \* static float pulse_width_us, as the operands
                          \* [rng, div] of rng / (500e6 / div) * 1e6
    init_state,           \* static int init_state
    dma_channels_status,  \* 1 = available / free
    dma_channels,         \* struct channel dma_channels[]
    cb_mem,               \* contents of the CB blocks, as the CB sequences
                          \* written into them (newest first)
    mask_mem,             \* contents of the set / clear mask words
    dma_reg,              \* DMA controller registers of each channel
    pwm_reg,              \* PWM clock divisor and range registers
    gpio_fsel,            \* GPFSELn: the 3-bit function select of each pin
    gpio_level,           \* pins currently driven high
    uncached_live,        \* outstanding uncached_malloc__ allocations
    leaks,                \* channels initialised again while still requested
    call,                 \* the last step taken: operation, inputs, result
    fault                 \* the process has died on a wild memory access

vars == <<clock_div, pwm_rng, allocated_pages, pulse_width_us, init_state,
          dma_channels_status, dma_channels, cb_mem, mask_mem, dma_reg,
          pwm_reg, gpio_fsel, gpio_level, uncached_live, leaks, call, fault>>

\* struct channel of a zero-initialised static array; freq_act is kept as an
\* exact fraction [n, d] in Hz, the other floats as Float records, t_sub_us
\* as a 32-bit unsigned value.
ZeroChannel ==
    [enabled |-> 0, selected_cb_buf |-> 0, seq_built |-> 0,
     cb_seq_num |-> 0, cb_set_num |-> 0, cb_clr_num |-> 0,
     t_sub_us |-> U32(0), freq_des |-> Float(0, 0),
     pwm_d_des |-> Float(0, 0),
     freq_act |-> [n |-> 0, d |-> 1],
     pwm_d_act |-> Float(0, 0),
     cb_size |-> 0, gen |-> 0]

UnsetMask == [written |-> FALSE, set |-> {}, clear |-> {}]

Init ==
    /\ clock_div = DEFAULT_CLOCK_DIV
    /\ pwm_rng = DEFAULT_PWM_RNG
    /\ allocated_pages = DEFAULT_PAGES
    /\ pulse_width_us = [rng |-> 0, div |-> 1]
    /\ init_state = 0
    /\ dma_channels_status = [c \in Channels |-> 1]
    /\ dma_channels = [c \in Channels |-> ZeroChannel]
    /\ cb_mem = [c \in Channels |-> [b \in Bufs |-> << >>]]
    /\ mask_mem = [c \in Channels |-> [b \in Bufs |-> UnsetMask]]
    /\ dma_reg = [c \in Channels |-> [active |-> FALSE, conblk_ad |-> 0]]
    /\ pwm_reg = [pwmdiv |-> 0, rng1 |-> 0]
    \* the library never reads or resets GPFSELn: pins are inputs (000) but
    \* for GPIO 14 and 15, which carry UART0 as alternate function 0 (100)
    /\ gpio_fsel = [p \in 0 .. 31 |-> IF p \in {14, 15} THEN 4 ELSE 0]
    /\ gpio_level = {}
    /\ uncached_live = 0
    /\ leaks = 0
    /\ call = [op |-> "none"]
    /\ fault = FALSE

\* ------------------------------------------------------------------------
\* check_channel
\* ------------------------------------------------------------------------
\* a check of the range alone
check_channel_range(channel) ==
    IF channel < 0 \/ channel >= NUM_DMA_CHANNELS THEN -EINVCHNL ELSE 0

check_channel(channel) ==
    IF channel < 0 \/ channel >= NUM_DMA_CHANNELS THEN -EINVCHNL
    ELSE IF dma_channels_status[channel] # 0 THEN -EINVCHNL
    ELSE 0

\* ------------------------------------------------------------------------
\* config_pwm
\* ------------------------------------------------------------------------
\* a scan that looks at the first slot only
FirstChannelRequested == dma_channels_status[0] = 0

AnyChannelRequested == \E i \in Channels : dma_channels_status[i] = 0

ClockDivTemp(pulse_width, rng, conv) ==
    FloatToUint(ClockDivReal(pulse_width, rng), conv)

ClockDivOutOfBounds(clock_div_temp) ==
    U32LessThan1(clock_div_temp) \/ U32GreaterThan(clock_div_temp, MAX_CLOCK_DIV)

\* a clamp that lets a divisor of 2^12 through
ClockDivClampedLate(clock_div_temp) ==
    IF U32GreaterThan(clock_div_temp, MAX_CLOCK_DIV + 1)
           \/ U32LessThan1(clock_div_temp)
    THEN (IF U32LessThan1(clock_div_temp) THEN 1 ELSE MAX_CLOCK_DIV + 1)
    ELSE U32ToInt(clock_div_temp)

\* a clamp one above the 12-bit divisor field
ClockDivClampedHigh(clock_div_temp) ==
    IF U32LessThan1(clock_div_temp) THEN 1 ELSE MAX_CLOCK_DIV + 1

ClockDivClamped(clock_div_temp) ==
    IF ClockDivOutOfBounds(clock_div_temp)
    THEN (IF U32LessThan1(clock_div_temp) THEN 1 ELSE MAX_CLOCK_DIV)
    ELSE U32ToInt(clock_div_temp)

PwmRngTemp(pulse_width, rng, clock_div_temp, conv) ==
    IF ClockDivOutOfBounds(clock_div_temp)
    THEN FloatToUint(PwmRngReal(pulse_width, ClockDivClamped(clock_div_temp)), conv)
    ELSE U32(rng)

PulseWidthOutOfBounds(pulse_width) ==
    FloatAbovePwMax(pulse_width) \/ FloatBelow0_4(pulse_width)

\* The value config_pwm returns and the engine configuration it leaves.
ConfigOutcome(pages, pulse_width, conv) ==
    LET cur == [clock_div |-> clock_div, pwm_rng |-> pwm_rng,
                pulse_width_us |-> pulse_width_us]
    IN
    IF AnyChannelRequested
    THEN cur @@ [ret |-> -ECHNLREQ, allocated_pages |-> allocated_pages]
    ELSE IF PulseWidthOutOfBounds(pulse_width)
    THEN cur @@ [ret |-> -EINVPW, allocated_pages |-> pages]
    ELSE LET cdt == ClockDivTemp(pulse_width, pwm_rng, conv)
             prt == PwmRngTemp(pulse_width, pwm_rng, cdt, conv)
         IN  IF ClockDivOutOfBounds(cdt) /\ U32LessThan1(prt)
             THEN cur @@ [ret |-> -EINVPW, allocated_pages |-> pages]
             ELSE [ret |-> 0, allocated_pages |-> pages,
                   clock_div |-> ClockDivClamped(cdt),
                   pwm_rng |-> U32ToInt(prt),
                   pulse_width_us |-> [rng |-> U32ToInt(prt),
                                       div |-> ClockDivClamped(cdt)]]

config_pwm(pages, pulse_width, conv) ==
    /\ ~fault
    /\ \E o \in {ConfigOutcome(pages, pulse_width, conv)} :
       /\ clock_div' = o.clock_div
       /\ pwm_rng' = o.pwm_rng
       /\ pulse_width_us' = o.pulse_width_us
       /\ allocated_pages' = o.allocated_pages
       /\ call' = [op |-> "config_pwm", pages |-> pages,
                   pulse_width |-> pulse_width, ret |-> o.ret,
                   entry |-> [clock_div |-> clock_div, pwm_rng |-> pwm_rng,
                              pulse_width_us |-> pulse_width_us,
                              allocated_pages |-> allocated_pages,
                              status |-> dma_channels_status]]
    /\ UNCHANGED <<init_state, dma_channels_status, dma_channels, cb_mem,
                   mask_mem, dma_reg, pwm_reg, gpio_fsel, gpio_level,
                   uncached_live, leaks, fault>>

\* ------------------------------------------------------------------------
\* Specification of the engine configuration alone
\* ------------------------------------------------------------------------
\* ------------------------------------------------------------------------
\* Uncached memory blocks and bus addresses
\* ------------------------------------------------------------------------
\* Every uncached block gets a bus address of its own; blocks lie REGION
\* bytes apart.  A channel initialised again gets fresh blocks (gen + 1).
REGION == Pow2(20)
BusBase(c, b, gen) == REGION * (1 + b + 2 * c + 2 * NUM_DMA_CHANNELS * gen)

cb_base_bus_addr(c, b) == BusBase(c, b, dma_channels[c].gen)

\* uncached_virt_to_bus_addr__ for a pointer offset bytes above the block
\* (below it when offset < 0).  The code keeps the difference in a uint32_t:
\* a negative difference wraps to 2^32 + offset, above every block size.
\* The sentinel (uint32_t)-1 is written -1.
uncached_virt_to_bus_addr__(bus_addr, size, offset) ==
    IF offset >= 0 /\ offset <= size THEN bus_addr + offset ELSE -1

\* number of whole CBs a block of size bytes holds
CbCapacity(size) == size \div CB_SIZE

\* ------------------------------------------------------------------------
\* build_cb_seq: the CB written at index i of the sequence
\* ------------------------------------------------------------------------
\* seq = [cb_seq_num, cb_set_num, duty_int, bus_addr, size] where duty_int is
\* (int)pwm_d_des and bus_addr, size describe the block written.
GpioCb(src, dst, next) ==
    [info |-> "WAIT_RESP", src |-> src, dst |-> dst, next |-> next]
WaitCb(next) ==
    [info |-> "WAIT_RESP|DREQ", src |-> "random", dst |-> "pwmfif1",
     next |-> next]

NextCbAddr(seq, i) ==
    uncached_virt_to_bus_addr__(seq.bus_addr, seq.size, (i + 1) * CB_SIZE)

IsClearBoundary(seq, i) ==
    i = seq.cb_set_num + 1 /\ seq.duty_int % 100 # 0

IsLastCb(seq, i) == i = seq.cb_seq_num - 1

BuildCb(seq, i) ==
    IF i = 0
    THEN IF seq.duty_int # 0
         THEN GpioCb("set_mask", "gpset0", NextCbAddr(seq, i))
         ELSE GpioCb("clear_mask", "gpclr0", NextCbAddr(seq, i))
    ELSE IF IsClearBoundary(seq, i)
    THEN GpioCb("clear_mask", "gpclr0", NextCbAddr(seq, i))
    ELSE WaitCb(IF IsLastCb(seq, i) THEN seq.bus_addr ELSE NextCbAddr(seq, i))

\* Memory of a CB block after build_cb_seq wrote seq into it: the new
\* sequence covers indices 0 .. cb_seq_num - 1, older sequences show through
\* above it.
WriteSeq(mem, seq) ==
    <<seq>> \o SelectSeq(mem, LAMBDA old : old.cb_seq_num > seq.cb_seq_num)

\* The CB stored at index i of a block; memory never written holds no CB
UnwrittenCb ==
    [info |-> "unwritten", src |-> "none", dst |-> "none", next |-> -1]

RECURSIVE CbInMem(_, _)
CbInMem(mem, i) ==
    IF mem = << >> THEN UnwrittenCb
    ELSE IF i < Head(mem).cb_seq_num THEN BuildCb(Head(mem), i)
    ELSE CbInMem(Tail(mem), i)

\* ------------------------------------------------------------------------
\* set_pwm: the derived quantities.  freq and duty_cycle are floats;
\* pulse_width_us is kept as its operands, ticks = pwm_rng * clock_div being
\* the pulse width in 2 ns units.
\* ------------------------------------------------------------------------
Ticks(pw) == pw.rng * pw.div

\* The float pulse_width_us: (pwm_rng / (500e6 / clock_div)) * 1e6 is
\* computed in double and stored as a float, the float nearest to
\* ticks / 500 (ticks < 2^24).
PulseWidthFloat(pw) == FloatDiv(FloatOfWide(U32(Ticks(pw))), FloatOfInt(500))

\* floor(1e6 * (1.0 / freq)) for a float freq > 0 and a period below
\* 2^48 us: freq is m * 2^e with m odd (z trailing zeros removed).
PeriodUs(freq) ==
    LET z == CHOOSE k \in 0 .. 23 :
                 freq.m % Pow2(k) = 0 /\ freq.m % Pow2(k + 1) # 0
        m == freq.m \div Pow2(z)
        e == freq.e + z
    IN  IF e >= 20 THEN Wide(0, 0)
        ELSE IF e >= 0 THEN Wide(0, (1000000 \div m) \div Pow2(e))
        ELSE IF -e <= 24 THEN WideDiv(WideShiftLeft(Wide(0, 1000000), -e), m)
        ELSE WideDiv(WideShiftLeft(WideShiftLeft(Wide(0, 1000000), 24),
                                   -e - 24), m)

\* t_sub_us = 1e6 * (1.0 / freq), a double converted to unsigned
TSubUs(freq, conv) == FloatToUint(PeriodUs(freq), conv)

\* t_sub_us / pulse_width_us, a float
SubCycles(t_sub_us, pwf) == FloatDiv(FloatOfWide(t_sub_us), pwf)

\* x / 2
FloatHalf(x) == IF x.m = 0 THEN x ELSE Float(x.m, x.e - 1)

\* cb_seq_num = (t_sub_us / pulse_width_us) / 2
CbSeqNum(t_sub_us, pwf) == FloatTrunc(FloatHalf(SubCycles(t_sub_us, pwf)))

\* pages_req = CEILING((cb_seq_num / getpagesize()))
PagesReq(cb_seq_num) == (cb_seq_num \div PAGE_SIZE) + 1

\* (duty_cycle < 0) || (duty_cycle > 100)
DutyOutOfBounds(duty) == duty.m < 0 \/ FloatLess(FloatOfInt(100), duty)

\* (int)duty_cycle
DutyInt(duty) == FloatTrunc(duty)

\* (int)duty_cycle % 100 == 0
DutyTrivial(duty) == DutyInt(duty) % 100 = 0

\* pwm_d_res = 100.0 * (1 - (cb_seq_num - 1) / (float)cb_seq_num): the
\* quotient q is a float in [0.5, 1], or 0; 1 - q is exact, and the double
\* product is rounded to float on assignment.
PwmDRes(cb_seq_num) ==
    LET q == FloatDiv(FloatOfInt(cb_seq_num - 1), FloatOfInt(cb_seq_num))
    IN  IF q.m = 0 THEN FloatOfInt(100)
        ELSE IF q.e > -24 THEN FloatZero
        ELSE RoundWide(WideMul(100, W24 - q.m), -24, FALSE)

\* ROUND(duty_cycle / pwm_d_res), with
\* ROUND(n) = ((n) - (int)(n) < 0.5) ? (int)(n) : (int)((n) + 1)
RoundSteps(duty, pwm_d_res) ==
    LET x == FloatDiv(duty, pwm_d_res)
    IN  IF FloatFracBelowHalf(x) THEN FloatTrunc(x)
        ELSE FloatTrunc(FloatPlus1(x))

\* pwm_d_act: duty_cycle, or ROUND(duty_cycle / pwm_d_res) * pwm_d_res
PwmDAct(duty, cb_seq_num) ==
    IF DutyTrivial(duty) THEN duty
    ELSE CHOOSE act \in
             {FloatMul(FloatOfInt(RoundSteps(duty, r)), r) :
              r \in {PwmDRes(cb_seq_num)}} : TRUE

\* a set count without the division by 2
CbSetNumWhole(t_sub_us, pwf, act) ==
    FloatTrunc(FloatMul(SubCycles(t_sub_us, pwf),
                        FloatDiv(act, FloatOfInt(100))))

\* cb_set_num = (t_sub_us / pulse_width_us) * (pwm_d_act / 100) / 2
CbSetNum(t_sub_us, pwf, act) ==
    FloatTrunc(FloatHalf(FloatMul(SubCycles(t_sub_us, pwf),
                                  FloatDiv(act, FloatOfInt(100)))))

\* cb_clr_num = abs(cb_seq_num - cb_set_num)
CbClrNum(cb_seq_num, cb_set_num) ==
    IF cb_seq_num >= cb_set_num THEN cb_seq_num - cb_set_num
    ELSE cb_set_num - cb_seq_num

\* cb_seq_num += ((int)duty_cycle % 100 == 0) ? 1 : 2
SeqTotal(cb_seq_num, duty) == cb_seq_num + (IF DutyTrivial(duty) THEN 1 ELSE 2)

\* a build that keeps writing the selected buffer
SameBuf(selected_cb_buf) == selected_cb_buf

\* cb_buf = (selected_cb_buf ? 0 : 1)
OtherBuf(selected_cb_buf) == IF selected_cb_buf # 0 THEN 0 ELSE 1

\* ------------------------------------------------------------------------
\* request_pwm, with init_pwm and init_channel
\* ------------------------------------------------------------------------
\* get_pi_version__ looks the revision of /proc/cpuinfo up in its table
\* (three of its rows here).  The loop ends on the first matching row; its
\* "no match" branch tests i against the table size inside the loop, which
\* never holds, so without a match the function returns version
\* uninitialised: any value (garbage).
get_pi_version__(revision, garbage) ==
    LET pi_version == {[revision_string |-> "0002", version |-> 1],
                       [revision_string |-> "a02082", version |-> 3],
                       [revision_string |-> "c03111", version |-> 4]}
    IN  IF \E r \in pi_version : r.revision_string = revision
        THEN (CHOOSE r \in pi_version : r.revision_string = revision).version
        ELSE garbage

\* a get_pi_version__ that reports -1 when no row matches
GetPiVersionOrFail(revision, garbage) ==
    get_pi_version__(revision, -1)

\* init_pwm up to its return: -ENOPIVER before the pulse width is computed
\* when the version is none of 0 .. 4, then the outcome of mapping the
\* peripherals (0 or -EMAPFAIL); nothing after the mapping fails.
init_pwm(board) ==
    IF get_pi_version__(board.revision, board.version) \notin 0 .. 4
    THEN -ENOPIVER
    ELSE board.map

\* a Pi 3 Model B whose peripherals map
KnownBoard == [revision |-> "a02082", version |-> 0, map |-> 0]

\* What init_pwm meets: a listed board whose peripherals map or do not, and
\* an unlisted board with an uninitialised version outside or inside 0 .. 4.
InitOutcomes ==
    {KnownBoard,
     [revision |-> "a02082", version |-> 0, map |-> -EMAPFAIL],
     [revision |-> "d04170", version |-> 77, map |-> 0],
     [revision |-> "d04170", version |-> 3, map |-> 0]}

InitPwmRet(initret) == IF init_state = 0 THEN initret ELSE 0

InitPwmPulseWidth(initret) ==
    IF init_state = 0 /\ initret # -ENOPIVER
    THEN [rng |-> pwm_rng, div |-> clock_div]
    ELSE pulse_width_us

\* a request_pwm that runs the register sequence whenever init_pwm succeeds
InitPwmRegsEveryRequest(initret) ==
    IF initret = 0
    THEN [pwmdiv |-> clock_div, rng1 |-> pwm_rng]
    ELSE pwm_reg

InitPwmRegs(initret) ==
    IF init_state = 0 /\ initret = 0
    THEN [pwmdiv |-> clock_div, rng1 |-> pwm_rng]
    ELSE pwm_reg

PoolFull == \A i \in Channels : dma_channels_status[i] = 0

\* The scan of request_pwm: the first available slot.  With no slot
\* available the loop ends without assigning channel, which is then read
\* uninitialised: any value (garbage).
ScanChannel(garbage) ==
    IF PoolFull THEN garbage
    ELSE CHOOSE i \in Channels :
             /\ dma_channels_status[i] # 0
             /\ \A j \in Channels : j < i => dma_channels_status[j] = 0

GarbageChannels == Channels \cup {-1}

\* two buffers of set and clear masks, without the CB blocks
MaskBlocksPerChannel == 2 * 2

BlocksPerChannel == 2 * 3

init_channel(channel, again) ==
    /\ dma_channels' = [dma_channels EXCEPT ![channel] =
           [@ EXCEPT !.enabled = 0, !.selected_cb_buf = 1, !.seq_built = 0,
                     !.cb_size = PAGE_SIZE * allocated_pages,
                     !.gen = IF again THEN @ + 1 ELSE @]]
    /\ cb_mem' = [cb_mem EXCEPT ![channel] = [b \in Bufs |-> << >>]]
    /\ mask_mem' = [mask_mem EXCEPT ![channel] = [b \in Bufs |-> UnsetMask]]
    /\ uncached_live' = uncached_live + BlocksPerChannel
    /\ leaks' = IF again THEN leaks + 1 ELSE leaks

request_pwm(board, garbage) ==
    /\ ~fault
    /\ \E initret \in {init_pwm(board)} :
       LET ret     == InitPwmRet(initret)
           channel == ScanChannel(garbage)
           entry   == [status |-> dma_channels_status,
                       channels |-> dma_channels,
                       live |-> uncached_live, full |-> PoolFull,
                       init_state |-> init_state,
                       revision |-> IF init_state = 0 THEN board.revision
                                    ELSE "unread"]
       IN
       /\ pulse_width_us' = InitPwmPulseWidth(initret)
       /\ pwm_reg' = InitPwmRegs(initret)
       /\ IF ret < 0
          THEN /\ call' = [op |-> "request_pwm", ret |-> ret,
                           entry |-> entry]
               /\ UNCHANGED <<init_state, dma_channels_status, dma_channels,
                              cb_mem, mask_mem, uncached_live, leaks, fault>>
          ELSE /\ init_state' = 1
               /\ IF channel \notin Channels
                  THEN /\ fault' = TRUE
                       /\ call' = [op |-> "request_pwm_crash",
                                   entry |-> entry]
                       /\ UNCHANGED <<dma_channels_status, dma_channels,
                                      cb_mem, mask_mem, uncached_live, leaks>>
                  ELSE /\ PoolFull => leaks < MaxLeaks
                       /\ dma_channels_status' =
                              [dma_channels_status EXCEPT ![channel] = 0]
                       /\ init_channel(channel, PoolFull)
                       /\ call' = [op |-> "request_pwm", ret |-> channel,
                                   entry |-> entry]
                       /\ UNCHANGED fault
    /\ UNCHANGED <<clock_div, pwm_rng, allocated_pages, dma_reg, gpio_fsel,
                   gpio_level>>

\* ------------------------------------------------------------------------
\* enable_pwm, disable_pwm, free_pwm
\* ------------------------------------------------------------------------
\* an arm sequence that sets ACTIVE before CONBLK_AD is loaded
EnableWritesActiveFirst(channel, cb_buf) ==
    <<[write |-> "set ABORT", value |-> 0],
      [write |-> "clear ACTIVE", value |-> 0],
      [write |-> "set END", value |-> 0],
      [write |-> "set RESET", value |-> 0],
      [write |-> "set ACTIVE", value |-> 0],
      [write |-> "load CONBLK_AD",
       value |-> cb_base_bus_addr(channel, cb_buf)],
      [write |-> "write PRIO WAIT", value |-> 0]>>

\* the writes of enable_pwm to the DMA registers of the channel, in program
\* order: cs |= ABORT, cs &= ~ACTIVE, cs |= END, cs |= RESET,
\* conblk_ad = cb_base_bus_addr[cb_buf], cs = PANIC_PRIO | PRIO | WAIT,
\* cs |= ACTIVE
EnableWrites(channel, cb_buf) ==
    <<[write |-> "set ABORT", value |-> 0],
      [write |-> "clear ACTIVE", value |-> 0],
      [write |-> "set END", value |-> 0],
      [write |-> "set RESET", value |-> 0],
      [write |-> "load CONBLK_AD",
       value |-> cb_base_bus_addr(channel, cb_buf)],
      [write |-> "write PRIO WAIT", value |-> 0],
      [write |-> "set ACTIVE", value |-> 0]>>

\* The registers after the arm sequence.  ACTIVE is what the last write to
\* it left (a reset and the plain assignment of the priority bits clear
\* it), CONBLK_AD what the last of reset and load left.
ArmedReg(channel, cb_buf) ==
    LET w == EnableWrites(channel, cb_buf)
        Last(kinds) ==
            CHOOSE i \in 1 .. Len(w) :
                /\ w[i].write \in kinds
                /\ \A j \in (i + 1) .. Len(w) : w[j].write \notin kinds
    IN  [active |->
             w[Last({"clear ACTIVE", "set RESET", "write PRIO WAIT",
                     "set ACTIVE"})].write = "set ACTIVE",
         conblk_ad |-> w[Last({"set RESET", "load CONBLK_AD"})].value]

\* abort, clear ACTIVE, reset
StoppedReg == [active |-> FALSE, conblk_ad |-> 0]

\* an enable_pwm that checks the channel alone
EnableRetChannelOnly(channel) ==
    IF check_channel(channel) < 0 THEN check_channel(channel) ELSE 0

EnableRet(channel) ==
    IF check_channel(channel) < 0 THEN check_channel(channel)
    ELSE IF dma_channels[channel].seq_built = 0 THEN -EPWMNOTSET
    ELSE 0

enable_pwm(channel) ==
    /\ ~fault
    /\ LET ret == EnableRet(channel) IN
       /\ call' = [op |-> "enable_pwm", channel |-> channel, ret |-> ret,
                   writes |-> IF ret < 0 THEN << >>
                              ELSE EnableWrites(channel,
                                       dma_channels[channel].selected_cb_buf)]
       /\ IF ret < 0
          THEN UNCHANGED <<dma_reg, dma_channels>>
          ELSE /\ dma_reg' = [dma_reg EXCEPT ![channel] =
                      ArmedReg(channel, dma_channels[channel].selected_cb_buf)]
               /\ dma_channels' =
                      [dma_channels EXCEPT ![channel].enabled = 1]
    /\ UNCHANGED <<clock_div, pwm_rng, allocated_pages, pulse_width_us,
                   init_state, dma_channels_status, cb_mem, mask_mem, pwm_reg,
                   gpio_fsel, gpio_level, uncached_live, leaks, fault>>

\* a clear_channel_gpio that writes nothing to GPCLR0
ClearedPinsNone(channel, garbage) == {}

\* clear_channel_gpio reads the set mask of the selected buffer; a mask
\* word that was never written holds whatever the block held (garbage).
ClearedPins(channel, garbage) ==
    LET m == mask_mem[channel][dma_channels[channel].selected_cb_buf]
    IN  IF m.written THEN m.set ELSE garbage

disable_pwm(channel, garbage) ==
    /\ ~fault
    /\ LET ret == check_channel(channel) IN
       /\ call' = [op |-> "disable_pwm", channel |-> channel, ret |-> ret,
                   high |-> gpio_level,
                   cleared |-> IF ret < 0 THEN {}
                               ELSE ClearedPins(channel, garbage)]
       /\ IF ret < 0
          THEN UNCHANGED <<dma_reg, dma_channels, gpio_level>>
          ELSE /\ dma_reg' = [dma_reg EXCEPT ![channel] = StoppedReg]
               /\ gpio_level' = gpio_level \ ClearedPins(channel, garbage)
               /\ dma_channels' =
                      [dma_channels EXCEPT ![channel].enabled = 0]
    /\ UNCHANGED <<clock_div, pwm_rng, allocated_pages, pulse_width_us,
                   init_state, dma_channels_status, cb_mem, mask_mem, pwm_reg,
                   gpio_fsel, uncached_live, leaks, fault>>

\* a free_pwm that releases the buffers first and stops the DMA afterwards
FreeStepsReleaseFirst ==
    <<"release cb_base 0", "release set_mask 0", "release clear_mask 0",
      "release cb_base 1", "release set_mask 1", "release clear_mask 1",
      "set ABORT", "clear ACTIVE", "set RESET", "clear GPIO">>

\* the steps of free_pwm on a requested channel, in program order:
\* disable_pwm (cs |= ABORT, cs &= ~ACTIVE, cs |= RESET,
\* clear_channel_gpio), then uncached_free__ of cb_base, set_mask and
\* clear_mask of buffer 0 and of buffer 1
FreeSteps ==
    <<"set ABORT", "clear ACTIVE", "set RESET", "clear GPIO",
      "release cb_base 0", "release set_mask 0", "release clear_mask 0",
      "release cb_base 1", "release set_mask 1", "release clear_mask 1">>

free_pwm(channel, garbage) ==
    /\ ~fault
    /\ LET ret == check_channel(channel) IN
       /\ call' = [op |-> "free_pwm", channel |-> channel, ret |-> ret,
                   enabled |-> IF ret < 0 THEN 0
                               ELSE dma_channels[channel].enabled,
                   active |-> IF ret < 0 THEN FALSE
                              ELSE dma_reg[channel].active,
                   steps |-> IF ret < 0 THEN << >> ELSE FreeSteps]
       /\ IF ret < 0
          THEN UNCHANGED <<dma_reg, dma_channels, gpio_level,
                           dma_channels_status, cb_mem, mask_mem,
                           uncached_live>>
          ELSE /\ dma_reg' = [dma_reg EXCEPT ![channel] = StoppedReg]
               /\ gpio_level' = gpio_level \ ClearedPins(channel, garbage)
               /\ uncached_live' = uncached_live - BlocksPerChannel
               /\ cb_mem' = [cb_mem EXCEPT ![channel] = [b \in Bufs |-> << >>]]
               /\ mask_mem' =
                      [mask_mem EXCEPT ![channel] = [b \in Bufs |-> UnsetMask]]
               /\ dma_channels' = [dma_channels EXCEPT ![channel] =
                      [@ EXCEPT !.enabled = 0, !.seq_built = 0]]
               /\ dma_channels_status' =
                      [dma_channels_status EXCEPT ![channel] = 1]
    /\ UNCHANGED <<clock_div, pwm_rng, allocated_pages, pulse_width_us,
                   init_state, pwm_reg, gpio_fsel, leaks, fault>>

\* The termination-signal handler, installed by init_pwm: free_pwm(i) for
\* every slot i in turn.  free_pwm is refused on the free slots and touches
\* only its own slot on the others, so the calls add up to one release of
\* every requested slot.
\* during says where the signal is delivered: between two calls
\* ([op |-> "none"]), or inside free_pwm(channel) on a requested channel
\* after its check of the channel and `released` of its six releases, the
\* status of the slot still being 0.  Nothing blocks or defers the signal
\* there, the handler then releases the slot's six blocks, `released` of
\* them for the second time, and the interrupted free_pwm goes on to
\* release the others again: the step runs to the return of the
\* interrupted call.  Releasing a block twice is undefined (the record of
\* the block is passed to free() twice): the process dies or goes on.
signal_handler(garbage, during, crash) ==
    /\ ~fault
    /\ init_state = 1
    /\ during.op = "free_pwm" => check_channel(during.channel) = 0
    /\ fault' = (during.op = "free_pwm" /\ crash)
    /\ LET requested == {c \in Channels : check_channel(c) = 0} IN
       /\ call' = [op |-> IF during.op = "none" THEN "signal_handler"
                          ELSE "signal_in_free_pwm",
                   requested |-> requested,
                   enabled |-> {c \in Channels :
                                   dma_channels[c].enabled # 0},
                   during |-> during,
                   released_again |-> IF during.op = "none" THEN 0
                                      ELSE BlocksPerChannel]
       /\ dma_reg' = [c \in Channels |->
              IF c \in requested THEN StoppedReg ELSE dma_reg[c]]
       /\ gpio_level' = gpio_level \
              UNION {ClearedPins(c, garbage) : c \in requested}
       /\ uncached_live' =
              uncached_live - BlocksPerChannel * Cardinality(requested)
       /\ cb_mem' = [c \in Channels |->
              IF c \in requested THEN [b \in Bufs |-> << >>] ELSE cb_mem[c]]
       /\ mask_mem' = [c \in Channels |->
              IF c \in requested THEN [b \in Bufs |-> UnsetMask]
              ELSE mask_mem[c]]
       /\ dma_channels' = [c \in Channels |->
              IF c \in requested
              THEN [dma_channels[c] EXCEPT !.enabled = 0, !.seq_built = 0]
              ELSE dma_channels[c]]
       /\ dma_channels_status' = [c \in Channels |->
              IF c \in requested THEN 1 ELSE dma_channels_status[c]]
    /\ UNCHANGED <<clock_div, pwm_rng, allocated_pages, pulse_width_us,
                   init_state, pwm_reg, gpio_fsel, leaks>>

\* ------------------------------------------------------------------------
\* get_duty_cycle_pwm, get_freq_pwm.  The C functions return one float: the
\* (negative) result of check_channel, or the stored value.  The record of
\* the call keeps the two apart: ret is 0 or the error, value the fraction.
\* ------------------------------------------------------------------------
AccessorRet(channel) ==
    IF check_channel(channel) < 0 THEN check_channel(channel) ELSE 0

get_duty_cycle_pwm(channel) ==
    /\ ~fault
    /\ call' = [op |-> "get_duty_cycle_pwm", channel |-> channel,
                ret |-> AccessorRet(channel),
                value |-> IF AccessorRet(channel) < 0
                          THEN FloatNeg(FloatOfInt(-AccessorRet(channel)))
                          ELSE dma_channels[channel].pwm_d_act]
    /\ UNCHANGED <<clock_div, pwm_rng, allocated_pages, pulse_width_us,
                   init_state, dma_channels_status, dma_channels, cb_mem,
                   mask_mem, dma_reg, pwm_reg, gpio_fsel, gpio_level,
                   uncached_live, leaks, fault>>

get_freq_pwm(channel) ==
    /\ ~fault
    /\ call' = [op |-> "get_freq_pwm", channel |-> channel,
                ret |-> AccessorRet(channel),
                value |-> IF AccessorRet(channel) < 0
                          THEN [n |-> AccessorRet(channel), d |-> 1]
                          ELSE dma_channels[channel].freq_act]
    /\ UNCHANGED <<clock_div, pwm_rng, allocated_pages, pulse_width_us,
                   init_state, dma_channels_status, dma_channels, cb_mem,
                   mask_mem, dma_reg, pwm_reg, gpio_fsel, gpio_level,
                   uncached_live, leaks, fault>>

\* ------------------------------------------------------------------------
\* set_pwm
\* ------------------------------------------------------------------------
SeqElems(q) == {q[k] : k \in 1 .. Len(q)}

\* argument checks that take pin 31 for invalid
SetPwmArgsRetBelow31(channel, gpio, duty) ==
    IF check_channel(channel) < 0 THEN check_channel(channel)
    ELSE IF DutyOutOfBounds(duty) THEN -EINVDUTY
    ELSE IF \E g \in SeqElems(gpio) : g < 0 \/ g >= 31 THEN -EINVGPIO
    ELSE 0

\* the checks of set_pwm, in order; 0 when the signal is accepted
SetPwmArgsRet(channel, gpio, duty) ==
    IF check_channel(channel) < 0 THEN check_channel(channel)
    ELSE IF DutyOutOfBounds(duty) THEN -EINVDUTY
    ELSE IF \E g \in SeqElems(gpio) : g < 0 \/ g > 31 THEN -EINVGPIO
    ELSE 0
SetPwmSizeRet(cb_seq_num) ==
    IF cb_seq_num = 0 THEN -EFREQNOTMET
    ELSE IF PagesReq(cb_seq_num) > allocated_pages THEN -ENOMEM
    ELSE 0

\* The quantities set_pwm derives from the pulse width, freq and
\* duty_cycle alone, for a sequence that fits the allocated pages.  With
\* cb_seq_num = 0 set_pwm returns before the duty cycle is looked at.
SetPwmNumbers(pw, freq, duty, conv) ==
    CHOOSE n \in UNION UNION
        {{{[t_sub_us |-> t, cb_seq_num |-> c, pwm_d_act |-> act,
            cb_set_num |-> IF c = 0 THEN 0 ELSE CbSetNum(t, pwf, act)] :
           act \in {IF c = 0 THEN duty ELSE PwmDAct(duty, c)}} :
          c \in {CbSeqNum(t, pwf)}} :
         t \in {TSubUs(freq, conv)}, pwf \in {PulseWidthFloat(pw)}} : TRUE

\* SetPwmNumbers, worked out once, for the pulse widths (in ticks: 10 us and
\* 20 us), signals and conversions that the life-cycle specifications
\* repeat in every state, and for the pulse widths (0.6 us, 10 us, 5000 us)
\* and signals of the duty-cycle specification; key is
\* <<ticks, freq, duty_cycle, conversion>>.
SetPwmTable ==
    {[key |-> in,
      n |-> SetPwmNumbers([rng |-> in[1], div |-> 1], in[2], in[3], in[4])] :
     in \in ({5000, 10000}
                \X {FloatOfInt(12), FloatOfInt(390), FloatOfInt(12500),
                    FloatOfInt(100000)}
                \X {FloatZero, FloatOfInt(1), FloatOfInt(50), FloatOfInt(99),
                    FloatOfInt(100)}
                \X ConvOutcomes)
            \cup {<<t, sig[1], sig[2], "saturate">> :
                      t \in {300, 5000, 2497950},
                      sig \in {<<FloatOfInt(1), FloatOfInt(75)>>,
                               <<FloatOfInt(55555), FloatOfInt(99)>>,
                               <<FloatOfInt(85),
                                 FloatDiv(FloatOfInt(608), FloatOfInt(10))>>,
                               <<FloatOfInt(50001), FloatOfInt(50)>>,
                               <<FloatOfInt(12500),
                                 FloatHalf(FloatOfInt(1))>>}}}

\* the fields set_pwm stores in the channel structure
SetPwmFields(channel, freq, duty, n) ==
    [dma_channels[channel] EXCEPT
        !.t_sub_us = n.t_sub_us,
        !.freq_des = freq,
        !.freq_act = [n |-> 250000000,
                      d |-> n.cb_seq_num * Ticks(pulse_width_us)],
        !.pwm_d_des = duty,
        !.pwm_d_act = n.pwm_d_act,
        !.cb_seq_num = SeqTotal(n.cb_seq_num, duty),
        !.cb_set_num = n.cb_set_num,
        !.cb_clr_num = CbClrNum(n.cb_seq_num, n.cb_set_num),
        !.selected_cb_buf = OtherBuf(dma_channels[channel].selected_cb_buf)]

\* the sequence build_cb_seq writes for a channel structure
ChannelSeq(channel, ch) ==
    [cb_seq_num |-> ch.cb_seq_num, cb_set_num |-> ch.cb_set_num,
     duty_int |-> DutyInt(ch.pwm_d_des),
     bus_addr |-> cb_base_bus_addr(channel, ch.selected_cb_buf),
     size |-> ch.cb_size]

\* build_cb_seq writes past the end of the block
Overruns(ch) == ch.cb_seq_num > CbCapacity(ch.cb_size)

\* A write past the end of the mapping either kills the process or lands
\* in whatever memory follows the block.
OverrunOutcomes == {"crash", "silent"}

SetPwmEntry(channel) ==
    IF channel \in Channels
    THEN [selected_cb_buf |-> dma_channels[channel].selected_cb_buf,
          enabled |-> dma_channels[channel].enabled,
          cb_mem |-> cb_mem[channel][dma_channels[channel].selected_cb_buf],
          mask_mem |-> mask_mem[channel][dma_channels[channel].selected_cb_buf]]
    ELSE [selected_cb_buf |-> 0, enabled |-> 0, cb_mem |-> << >>,
          mask_mem |-> UnsetMask]

\* GPIO_OUT: *(addr + p / 10) |= 1 << ((p % 10) * 3) ORs bit 0 into the
\* pin's 3-bit field and leaves its other two bits as they were.
GPIO_OUT(field) == IF field % 2 = 0 THEN field + 1 ELSE field

\* a set_pwm that re-arms the DMA whether or not the channel is enabled
SetPwmLiveAlways(ch) == TRUE

\* if (dma_channels[channel].enabled) enable_pwm(channel);
SetPwmLive(ch) == ch.enabled # 0

\* the accepted path of set_pwm, ch being the updated channel structure
SetPwmAccepted(channel, gpio, ch, overrun) ==
    /\ gpio_fsel' = [p \in 0 .. 31 |->
           IF p \in SeqElems(gpio) THEN GPIO_OUT(gpio_fsel[p])
           ELSE gpio_fsel[p]]
    /\ mask_mem' = [mask_mem EXCEPT ![channel][ch.selected_cb_buf] =
           [written |-> TRUE, set |-> SeqElems(gpio),
            clear |-> SeqElems(gpio)]]
    /\ cb_mem' = [cb_mem EXCEPT ![channel][ch.selected_cb_buf] =
           WriteSeq(@, ChannelSeq(channel, ch))]
    /\ IF Overruns(ch) /\ overrun = "crash"
       THEN /\ fault' = TRUE
            /\ dma_channels' = [dma_channels EXCEPT ![channel] = ch]
            /\ UNCHANGED dma_reg
            /\ call' = [op |-> "set_pwm_crash", channel |-> channel,
                        entry |-> SetPwmEntry(channel)]
       ELSE /\ fault' = FALSE
            /\ dma_channels' = [dma_channels EXCEPT ![channel] =
                   [ch EXCEPT !.seq_built = 1]]
            /\ dma_reg' = IF SetPwmLive(ch)
                          THEN [dma_reg EXCEPT ![channel] =
                                   ArmedReg(channel, ch.selected_cb_buf)]
                          ELSE dma_reg
            /\ call' = [op |-> "set_pwm", channel |-> channel, ret |-> 0,
                        gpio |-> gpio, freq |-> ch.freq_des,
                        duty |-> ch.pwm_d_des,
                        writes |-> IF SetPwmLive(ch)
                                   THEN EnableWrites(channel,
                                                     ch.selected_cb_buf)
                                   ELSE << >>,
                        entry |-> SetPwmEntry(channel)]

\* an error return that comes after the buffer selection
SetPwmRejectedLate(channel, gpio, freq, duty, ret) ==
    /\ call' = [op |-> "set_pwm", channel |-> channel, ret |-> ret,
                gpio |-> gpio, freq |-> freq, duty |-> duty,
                entry |-> SetPwmEntry(channel)]
    /\ dma_channels' =
           IF channel \in Channels
           THEN [dma_channels EXCEPT ![channel].selected_cb_buf = OtherBuf(@)]
           ELSE dma_channels
    /\ UNCHANGED <<cb_mem, mask_mem, dma_reg, gpio_fsel, fault>>

\* a return before anything is written
SetPwmRejected(channel, gpio, freq, duty, ret) ==
    /\ call' = [op |-> "set_pwm", channel |-> channel, ret |-> ret,
                gpio |-> gpio, freq |-> freq, duty |-> duty,
                entry |-> SetPwmEntry(channel)]
    /\ UNCHANGED <<dma_channels, cb_mem, mask_mem, dma_reg, gpio_fsel, fault>>

\* set_pwm: the argument checks, then cb_seq_num and the two checks of its
\* size, then the rest of the derived quantities.  The numbers n are read
\* from SetPwmTable where it has them; otherwise cb_seq_num is worked out
\* first and the others only for a sequence that passed the size checks.
set_pwm(channel, gpio, freq, duty, conv, overrun) ==
    /\ ~fault
    /\ IF SetPwmArgsRet(channel, gpio, duty) < 0
       THEN SetPwmRejected(channel, gpio, freq, duty,
                           SetPwmArgsRet(channel, gpio, duty))
       ELSE \E n \in
                {IF \E r \in SetPwmTable :
                        r.key = <<Ticks(pulse_width_us), freq, duty, conv>>
                 THEN (CHOOSE r \in SetPwmTable :
                           r.key = <<Ticks(pulse_width_us), freq, duty,
                                     conv>>).n
                 ELSE [cb_seq_num |-> CbSeqNum(TSubUs(freq, conv),
                                     PulseWidthFloat(pulse_width_us))]} :
                IF SetPwmSizeRet(n.cb_seq_num) < 0
                THEN SetPwmRejected(channel, gpio, freq, duty,
                                    SetPwmSizeRet(n.cb_seq_num))
                ELSE \E m \in
                         {IF DOMAIN n # {"cb_seq_num"} THEN n
                          ELSE SetPwmNumbers(pulse_width_us, freq, duty,
                                             conv)} :
                     \E ch \in {SetPwmFields(channel, freq, duty, m)} :
                         SetPwmAccepted(channel, gpio, ch, overrun)
    /\ UNCHANGED <<clock_div, pwm_rng, allocated_pages, pulse_width_us,
                   init_state, dma_channels_status, pwm_reg, gpio_level,
                   uncached_live, leaks>>

\* ------------------------------------------------------------------------
\* The DMA engine: an active channel executes the CB at CONBLK_AD and loads
\* the CB's next address.
\* ------------------------------------------------------------------------
\* the buffer and index of the channel's own CB at a bus address
CbIndexAt(channel, b, addr) == (addr - cb_base_bus_addr(channel, b)) \div CB_SIZE

IsCbAddr(channel, b, addr) ==
    /\ addr >= cb_base_bus_addr(channel, b)
    /\ addr < cb_base_bus_addr(channel, b) + REGION
    /\ (addr - cb_base_bus_addr(channel, b)) % CB_SIZE = 0
    /\ CbInMem(cb_mem[channel][b], CbIndexAt(channel, b, addr)) # UnwrittenCb

DmaLevel(cb, mask) ==
    IF cb.dst = "gpset0" THEN gpio_level \cup mask.set
    ELSE IF cb.dst = "gpclr0" THEN gpio_level \ mask.clear
    ELSE gpio_level

DmaStep(channel) ==
    /\ ~fault
    /\ dma_reg[channel].active
    /\ \E b \in Bufs :
        /\ IsCbAddr(channel, b, dma_reg[channel].conblk_ad)
        /\ LET cb == CbInMem(cb_mem[channel][b],
                             CbIndexAt(channel, b, dma_reg[channel].conblk_ad))
           IN  /\ gpio_level' = DmaLevel(cb, mask_mem[channel][b])
               /\ dma_reg' = [dma_reg EXCEPT ![channel] =
                      [active |-> cb.next # 0, conblk_ad |-> cb.next]]
    /\ call' = [op |-> "dma", channel |-> channel]
    /\ UNCHANGED <<clock_div, pwm_rng, allocated_pages, pulse_width_us,
                   init_state, dma_channels_status, dma_channels, cb_mem,
                   mask_mem, pwm_reg, gpio_fsel, uncached_live, leaks, fault>>

\* ------------------------------------------------------------------------
\* Specifications
\* ------------------------------------------------------------------------
\* Inputs of the configuration-only specification
ConfigPages == (1 .. MaxPages) \cup {DEFAULT_PAGES}
ConfigPulseWidths ==
    {PW_0_3, PW_0_4, PW_5, PW_50, PW_5000, PW_2P32, PW_OVERMAX}

ConfigStep ==
    \E pages \in ConfigPages, pw \in ConfigPulseWidths, conv \in ConvOutcomes :
        config_pwm(pages, pw, conv)

\* config_pwm alone, over pulse widths from below the lower bound to above
\* the upper bound
SpecConfig == Init /\ [][ConfigStep]_vars

\* what an unwritten mask word may hold
GarbageMasks == {{}, Pins}

\* The channel pool: configuration, requests up to and beyond a full pool,
\* and frees.  NUM_DMA_CHANNELS is the first invalid channel number.
PoolPulseWidths == {PW_0_3, PW_5}
RequestInputs ==
    {<<KnownBoard, g>> : g \in GarbageChannels}
        \cup {<<b, 0>> : b \in InitOutcomes}
PoolFreeChannels == {0, 1, 2, NUM_DMA_CHANNELS}

PoolConfig ==
    \E pages \in 1 .. MaxPages, pw \in PoolPulseWidths :
        config_pwm(pages, pw, "saturate")
PoolRequest == \E in \in RequestInputs : request_pwm(in[1], in[2])
PoolFree ==
    \E channel \in PoolFreeChannels, garbage \in GarbageMasks :
        free_pwm(channel, garbage)

\* uncached_virt_to_bus_addr__ called on the first CB block of channel 0
\* with pointers around the block: one CB below it, its first and second
\* CB, its last CB, one past its end and one CB beyond.
PoolTranslate ==
    /\ ~fault
    /\ dma_channels_status[0] = 0
    /\ \E offset \in {-CB_SIZE, 0, CB_SIZE, dma_channels[0].cb_size - CB_SIZE,
                      dma_channels[0].cb_size,
                      dma_channels[0].cb_size + CB_SIZE} :
           call' = [op |-> "uncached_virt_to_bus_addr__",
                    bus_addr |-> cb_base_bus_addr(0, 0),
                    size |-> dma_channels[0].cb_size,
                    offset |-> offset,
                    ret |-> uncached_virt_to_bus_addr__(
                                cb_base_bus_addr(0, 0),
                                dma_channels[0].cb_size, offset)]
    /\ UNCHANGED <<clock_div, pwm_rng, allocated_pages, pulse_width_us,
                   init_state, dma_channels_status, dma_channels, cb_mem,
                   mask_mem, dma_reg, pwm_reg, gpio_fsel, gpio_level,
                   uncached_live, leaks, fault>>

NextPool == PoolConfig \/ PoolRequest \/ PoolFree \/ PoolTranslate

SpecPool == Init /\ [][NextPool]_vars

\* The life cycle of a signal: the client holds at most MaxHeld channels
\* and drives short rings on channel 0.
\* set_pwm inputs: <<channel, gpio, freq, duty_cycle>>; Float(13107201, -17)
\* is the next float above 100.
WorkChannels == {0, NUM_DMA_CHANNELS}
LifePulseWidths == {PW_0_3, PW_20}
LifeSignals ==
    {<<0, <<26>>, FloatOfInt(12500), FloatZero>>,
     <<0, <<26>>, FloatOfInt(12500), FloatOfInt(1)>>,
     <<0, <<26>>, FloatOfInt(12500), FloatOfInt(50)>>,
     <<0, <<26>>, FloatOfInt(12500), FloatOfInt(99)>>,
     <<0, <<26>>, FloatOfInt(12500), Float(13107201, -17)>>,
     <<0, <<32>>, FloatOfInt(12500), FloatOfInt(50)>>,
     <<0, <<26>>, FloatOfInt(100000), FloatOfInt(50)>>,
     <<NUM_DMA_CHANNELS, <<26>>, FloatOfInt(12500), FloatOfInt(50)>>}
Held == Cardinality({c \in Channels : dma_channels_status[c] = 0})

Config == \E pw \in LifePulseWidths : config_pwm(1, pw, "saturate")
Request ==
    /\ Held < MaxHeld
    /\ \E board \in InitOutcomes : request_pwm(board, -1)
Free ==
    \E channel \in WorkChannels, garbage \in GarbageMasks :
        free_pwm(channel, garbage)
SetPwm ==
    \E sig \in LifeSignals : set_pwm(sig[1], sig[2], sig[3], sig[4], "saturate", "crash")
Enable == \E channel \in WorkChannels : enable_pwm(channel)
Disable ==
    \E channel \in WorkChannels, garbage \in GarbageMasks :
        disable_pwm(channel, garbage)
Dma == \E channel \in Channels : DmaStep(channel)

Next == Config \/ Request \/ Free \/ SetPwm \/ Enable \/ Disable \/ Dma

Spec == Init /\ [][Next]_vars

\* Long rings: sequences near and beyond the size of a one-page block, with
\* no DMA activity.
RingPulseWidths == {PW_0_3, PW_20}
RingSignals ==
    {<<0, <<26>>, FloatOfInt(12500), FloatOfInt(50)>>,
     <<0, <<26>>, FloatOfInt(390), FloatOfInt(50)>>,
     <<0, <<26>>, FloatOfInt(12), FloatOfInt(50)>>}

RingConfig ==
    \E pages \in 1 .. MaxPages, pw \in RingPulseWidths :
        config_pwm(pages, pw, "saturate")
RingRequest ==
    /\ Held = 0
    /\ request_pwm(KnownBoard, -1)
RingFree == \E garbage \in GarbageMasks : free_pwm(0, garbage)
RingSetPwm ==
    \E sig \in RingSignals, overrun \in OverrunOutcomes :
        set_pwm(sig[1], sig[2], sig[3], sig[4], "saturate", overrun)
RingEnable == enable_pwm(0)

NextRing == RingConfig \/ RingRequest \/ RingFree \/ RingSetPwm \/ RingEnable

SpecRing == Init /\ [][NextRing]_vars

\* Argument checks and accessors: one client channel with the default
\* configuration (10 us, DEFAULT_PAGES pages).  0.5 Hz needs 25 pages;
\* Float(16000000, -36) is 15625 * 2^-26 Hz, a period of 2^32 us.
ArgSignals ==
    {<<0, <<0>>, FloatOfInt(12500), FloatZero>>,
     <<0, <<31>>, FloatOfInt(12500), FloatOfInt(100)>>,
     <<0, <<14, 26>>, FloatOfInt(12500), FloatOfInt(50)>>,
     <<0, <<-1>>, FloatOfInt(12500), FloatOfInt(50)>>,
     <<0, <<32>>, FloatOfInt(12500), FloatOfInt(50)>>,
     <<0, <<31>>, FloatOfInt(12500), FloatNeg(FloatOfInt(1))>>,
     <<0, <<31>>, FloatOfInt(12500), Float(13107201, -17)>>,
     <<0, <<32>>, FloatOfInt(12500), Float(13107201, -17)>>,
     <<0, <<31>>, FloatHalf(FloatOfInt(1)), FloatOfInt(75)>>,
     <<0, <<31>>, FloatOfInt(100000), FloatOfInt(50)>>,
     <<0, <<31>>, Float(16000000, -36), FloatOfInt(50)>>,
     <<-1, <<31>>, FloatOfInt(12500), FloatOfInt(50)>>,
     <<NUM_DMA_CHANNELS, <<31>>, FloatOfInt(12500), FloatOfInt(50)>>}

NextArgs ==
    \/ Held = 0 /\ request_pwm(KnownBoard, -1)
    \/ \E channel \in {-1, 0, NUM_DMA_CHANNELS} : free_pwm(channel, {})
    \/ \E sig \in ArgSignals, conv \in ConvOutcomes,
          overrun \in OverrunOutcomes :
           set_pwm(sig[1], sig[2], sig[3], sig[4], conv, overrun)
    \/ \E channel \in {-1, 0, NUM_DMA_CHANNELS} : enable_pwm(channel)
    \/ \E channel \in {-1, 0, NUM_DMA_CHANNELS} : disable_pwm(channel, {})
    \/ \E channel \in {-1, 0, NUM_DMA_CHANNELS} :
           get_duty_cycle_pwm(channel)
    \/ \E channel \in {-1, 0, NUM_DMA_CHANNELS} : get_freq_pwm(channel)

SpecArgs == Init /\ [][NextArgs]_vars

\* The arithmetic of set_pwm: one client channel with blocks of
\* DEFAULT_PAGES pages, pulse widths of 0.6 us, 10 us (the default) and
\* 5000 us, and the accessors.
DutySignals ==
    {<<0, <<26>>, FloatOfInt(1), FloatOfInt(75)>>,
     <<0, <<26>>, FloatOfInt(55555), FloatOfInt(99)>>,
     <<0, <<26>>, FloatOfInt(85), FloatDiv(FloatOfInt(608), FloatOfInt(10))>>,
     <<0, <<26>>, FloatOfInt(50001), FloatOfInt(50)>>,
     <<0, <<26>>, FloatOfInt(12500), FloatHalf(FloatOfInt(1))>>}

NextDuty ==
    \/ \E pw \in {PW_0_6, PW_5000} :
           config_pwm(DEFAULT_PAGES, pw, "saturate")
    \/ Held = 0 /\ request_pwm(KnownBoard, -1)
    \/ free_pwm(0, {})
    \/ \E sig \in DutySignals, overrun \in OverrunOutcomes :
           set_pwm(sig[1], sig[2], sig[3], sig[4], "saturate", overrun)
    \/ get_duty_cycle_pwm(0)
    \/ get_freq_pwm(0)

SpecDuty == Init /\ [][NextDuty]_vars

\* Pins: the client holds up to MaxHeld channels, drives channel 0 with a
\* 12.5 kHz signal at 50 % on pin 5 or on pin 26, changes the pin list
\* while the DMA runs, and disables or frees channels 0 and 1; channel 1 never
\* gets a signal.
NextPins ==
    \/ Held < MaxHeld /\ request_pwm(KnownBoard, -1)
    \/ \E gpio \in {<<5>>, <<26>>} :
           set_pwm(0, gpio, FloatOfInt(12500), FloatOfInt(50), "saturate",
                   "crash")
    \/ enable_pwm(0)
    \/ \E channel \in {0, 1}, garbage \in GarbageMasks :
           disable_pwm(channel, garbage)
    \/ \E channel \in {0, 1}, garbage \in GarbageMasks :
           free_pwm(channel, garbage)
    \/ DmaStep(0)

SpecPins == Init /\ [][NextPins]_vars

\* Termination signals: the client requests channels up to and beyond a
\* full pool, runs a signal on channel 0, and a termination signal arrives
\* between two calls.
NextSignal ==
    \/ \E garbage \in GarbageChannels : request_pwm(KnownBoard, garbage)
    \/ free_pwm(0, {})
    \/ \E overrun \in OverrunOutcomes :
           set_pwm(0, <<26>>, FloatOfInt(12500), FloatOfInt(50), "saturate",
                   overrun)
    \/ enable_pwm(0)
    \/ \E garbage \in GarbageMasks : signal_handler(garbage, [op |-> "none"], FALSE)
    \/ \E released \in 0 .. BlocksPerChannel, crash \in BOOLEAN :
           signal_handler({}, [op |-> "free_pwm", channel |-> 0,
                               released |-> released], crash)

SpecSignal == Init /\ [][NextSignal]_vars

\* ------------------------------------------------------------------------
\* Properties
\* ------------------------------------------------------------------------
SetPwmReturned0 == call.op = "set_pwm" /\ call.ret = 0
HeldAtEntry == \E i \in Channels : call.entry.status[i] = 0

\* C1: after every set_pwm that returns 0, the last CB of the emitted ring
\* points back to CB 0 and every other CB points to its successor, so
\* following next from CB 0 visits CBs 0 .. seq_total-1 and returns.
C1_RingClosed ==
    SetPwmReturned0 =>
        LET c    == call.channel
            b    == dma_channels[c].selected_cb_buf
            n    == dma_channels[c].cb_seq_num
            base == cb_base_bus_addr(c, b)
        IN  /\ CbInMem(cb_mem[c][b], n - 1).next = base
            /\ \A i \in 0 .. n - 2 :
                   CbInMem(cb_mem[c][b], i).next = base + (i + 1) * CB_SIZE

\* C2: after every set_pwm that returns 0 the ring fits the CB buffer
\* (seq_total * 32 <= allocated_pages * page_size) and every next pointer
\* lies in [base, base + size); a ring that does not fit is rejected, so
\* set_pwm never dies writing one.
C2_RingFits ==
    /\ call.op # "set_pwm_crash"
    /\ SetPwmReturned0 =>
        LET c    == call.channel
            b    == dma_channels[c].selected_cb_buf
            n    == dma_channels[c].cb_seq_num
            base == cb_base_bus_addr(c, b)
        IN  /\ n * CB_SIZE <= allocated_pages * PAGE_SIZE
            /\ \A i \in 0 .. n - 1 :
                   /\ CbInMem(cb_mem[c][b], i).next >= base
                   /\ CbInMem(cb_mem[c][b], i).next
                          < base + allocated_pages * PAGE_SIZE

\* C3: a set_pwm that writes (it returns 0, or dies writing) leaves the
\* buffer selected at entry as it was, writes all its CBs and both masks
\* inside the other buffer, and an enabled channel is pointed at the new
\* buffer only with the whole sequence in place.
C3_WritesOtherBufferOnly ==
    (call.op = "set_pwm_crash" \/ SetPwmReturned0) =>
        LET c   == call.channel
            ch  == dma_channels[c]
            old == call.entry.selected_cb_buf
            new == ch.selected_cb_buf
        IN  /\ new # old
            /\ cb_mem[c][old] = call.entry.cb_mem
            /\ mask_mem[c][old] = call.entry.mask_mem
            /\ ch.cb_seq_num <= CbCapacity(ch.cb_size)
            /\ Head(cb_mem[c][new]).cb_seq_num = ch.cb_seq_num
            /\ mask_mem[c][new].written
            /\ (call.entry.enabled # 0 /\ call.op = "set_pwm") =>
                   dma_reg[c].conblk_ad = cb_base_bus_addr(c, new)

\* C4: a set_pwm that returns 0 has flipped selected_cb_buf exactly once,
\* and if the channel was enabled at entry it is still enabled and its DMA
\* is active at the head of the newly selected buffer.
C4_FlipOnceAndRearm ==
    SetPwmReturned0 =>
        LET c  == call.channel
            ch == dma_channels[c]
        IN  /\ ch.selected_cb_buf = 1 - call.entry.selected_cb_buf
            /\ call.entry.enabled # 0 =>
                   /\ ch.enabled = 1
                   /\ dma_reg[c].active
                   /\ dma_reg[c].conblk_ad =
                          cb_base_bus_addr(c, ch.selected_cb_buf)

\* C4 witness: a live update, set_pwm accepted on an enabled channel
C4_LiveUpdate == SetPwmReturned0 /\ call.entry.enabled = 1

\* C5: in every state, an enabled channel's CONBLK_AD is the address of a
\* CB of the ring in the selected buffer, and ACTIVE is set only for an
\* enabled channel.
C5_EnabledRunsInRing ==
    \A c \in Channels :
        /\ dma_channels[c].enabled = 1 =>
               \E i \in 0 .. dma_channels[c].cb_seq_num - 1 :
                   dma_reg[c].conblk_ad =
                       cb_base_bus_addr(c, dma_channels[c].selected_cb_buf)
                           + i * CB_SIZE
        /\ dma_reg[c].active => dma_channels[c].enabled = 1

\* C6: a request_pwm made with all seven slots requested returns
\* -ENOFREECHNL, allocates nothing and changes no channel structure.
C6_FullPoolRejected ==
    (call.op \in {"request_pwm", "request_pwm_crash"} /\ call.entry.full) =>
        /\ call.op = "request_pwm"
        /\ call.ret = -ENOFREECHNL
        /\ uncached_live = call.entry.live
        /\ dma_channels = call.entry.channels

\* C7: request_pwm returns the lowest-index slot that was free at entry,
\* never a slot that was still requested.
C7_LowestFreeSlot ==
    (call.op = "request_pwm" /\ call.ret >= 0) =>
        /\ call.entry.status[call.ret] = 1
        /\ \A j \in Channels : j < call.ret => call.entry.status[j] = 0

\* C8: config_pwm called while a channel is requested returns -ECHNLREQ
\* and leaves divisor, range, pulse width and page budget unchanged; called
\* with no channel requested it never returns -ECHNLREQ.
C8_ConfigWhileRequested ==
    call.op = "config_pwm" =>
        /\ HeldAtEntry =>
               /\ call.ret = -ECHNLREQ
               /\ clock_div = call.entry.clock_div
               /\ pwm_rng = call.entry.pwm_rng
               /\ pulse_width_us = call.entry.pulse_width_us
               /\ allocated_pages = call.entry.allocated_pages
        /\ ~HeldAtEntry => call.ret # -ECHNLREQ

\* C8 witness: a valid configuration with a new page budget is refused
\* because a channel is requested
C8_RefusedValidConfig ==
    /\ call.op = "config_pwm"
    /\ HeldAtEntry
    /\ call.pulse_width = PW_5
    /\ call.pages # allocated_pages

\* C9: with no channel requested config_pwm returns -EINVPW exactly for
\* the pulse widths below 0.4 or above 3.5175782146e10, and 0 for all
\* others.
C9_PulseWidthBounds ==
    (call.op = "config_pwm" /\ ~HeldAtEntry) =>
        IF PulseWidthOutOfBounds(call.pulse_width)
        THEN call.ret = -EINVPW
        ELSE call.ret = 0

DefaultConfig5000 ==
    /\ call.op = "config_pwm"
    /\ call.pages = DEFAULT_PAGES
    /\ call.pulse_width = PW_5000
    /\ call.entry.clock_div = DEFAULT_CLOCK_DIV
    /\ call.entry.pwm_rng = DEFAULT_PWM_RNG
    /\ ~HeldAtEntry

\* C10 (as amended): from the default state (divisor 50, range 100)
\* config_pwm(16, 5000) returns 0 with clock_div = 4095, pwm_rng = 610 and
\* an achieved pulse width of 610 * 4095 / 500 = 4995.9 us.
C10_Config5000Clamped ==
    DefaultConfig5000 =>
        /\ call.ret = 0
        /\ clock_div = MAX_CLOCK_DIV
        /\ pwm_rng = 610
        /\ pulse_width_us = [rng |-> 610, div |-> MAX_CLOCK_DIV]
        /\ Ticks(pulse_width_us) = 2497950

\* C10 witness: config_pwm(16, 5000) accepted from the default state
C10_Config5000Accepted == DefaultConfig5000 /\ call.ret = 0

\* C10 as claimed: from the default state config_pwm(16, 5000) gives
\* clock_div = 2500, pwm_rng = 1000 and exactly 5000.0 us.
C10_Config5000AsClaimed ==
    DefaultConfig5000 =>
        /\ clock_div = 2500
        /\ pwm_rng = 1000
        /\ Ticks(pulse_width_us) = 2500000

\* ------------------------------------------------------------------------
\* Channel and argument checks
\* ------------------------------------------------------------------------
ChannelOps ==
    {"set_pwm", "enable_pwm", "disable_pwm", "free_pwm", "get_freq_pwm",
     "get_duty_cycle_pwm"}
NotRequested(channel) ==
    channel \notin Channels \/ dma_channels_status[channel] # 0

\* C11: set_pwm, enable_pwm, disable_pwm, free_pwm, get_freq_pwm and
\* get_duty_cycle_pwm called with a channel outside 0 .. 6, or with a
\* channel that is not requested, return -EINVCHNL and change nothing.
C11_InvalidChannelNoEffect ==
    [][(call'.op \in ChannelOps /\ NotRequested(call'.channel)) =>
          /\ call'.ret = -EINVCHNL
          /\ call'.op = "get_duty_cycle_pwm" =>
                 call'.value = FloatNeg(FloatOfInt(EINVCHNL))
          /\ call'.op = "get_freq_pwm" =>
                 call'.value = [n |-> -EINVCHNL, d |-> 1]
          /\ UNCHANGED <<clock_div, pwm_rng, allocated_pages, pulse_width_us,
                         init_state, dma_channels_status, dma_channels,
                         cb_mem, mask_mem, dma_reg, pwm_reg, gpio_fsel,
                         gpio_level, uncached_live, leaks, fault>>]_vars

\* a call on a channel in range that was requested and freed again
C11_FreedChannelRefused ==
    /\ call.op \in ChannelOps
    /\ call.channel = 0
    /\ call.ret = -EINVCHNL
    /\ dma_channels[0].gen = 0 /\ dma_channels[0].cb_seq_num > 0

\* C12: enable_pwm on a requested channel returns -EPWMNOTSET, writes no DMA
\* register and leaves enabled at 0 unless a set_pwm succeeded on the
\* channel since its most recent request_pwm.  In steps: request_pwm hands
\* out a channel with seq_built = 0, only a set_pwm that returns 0 raises
\* seq_built, and enable_pwm on a requested channel with seq_built = 0 is
\* refused without effect.
C12_EnableNeedsSet ==
    [][/\ (call'.op = "request_pwm" /\ call'.ret \in Channels) =>
              dma_channels'[call'.ret].seq_built = 0
       /\ \A c \in Channels :
              (dma_channels[c].seq_built = 0 /\ dma_channels'[c].seq_built # 0)
                  => (call'.op = "set_pwm" /\ call'.channel = c
                          /\ call'.ret = 0)
       /\ (/\ call'.op = "enable_pwm"
           /\ ~NotRequested(call'.channel)
           /\ dma_channels[call'.channel].seq_built = 0) =>
               /\ call'.ret = -EPWMNOTSET
               /\ dma_reg' = dma_reg
               /\ dma_channels[call'.channel].enabled = 0
               /\ dma_channels' = dma_channels]_vars

\* enable_pwm refused on a channel that holds the counts of a ring built
\* before it was freed and requested again
C12_StaleRingRefused ==
    /\ call.op = "enable_pwm" /\ call.channel = 0
    /\ call.ret = -EPWMNOTSET
    /\ dma_channels_status[0] = 0
    /\ dma_channels[0].cb_seq_num > 0
    /\ dma_channels[0].enabled = 0
    /\ ~dma_reg[0].active

\* a duty cycle below 0 or above 100, a pin below 0 or above 31
DutyInvalid(duty) ==
    \/ duty.m < 0
    \/ duty.m > 0 /\ (duty.e > -17 \/ (duty.e = -17 /\ duty.m > 100 * Pow2(17)))
GpioInvalid(gpio) == \E k \in 1 .. Len(gpio) : gpio[k] < 0 \/ gpio[k] > 31

\* C13: set_pwm on a requested channel returns -EINVDUTY when the duty is
\* below 0 or above 100, and -EINVGPIO when (the duty being valid) a listed
\* pin is below 0 or above 31; duties from 0 to 100 with pins from 0 to 31
\* get neither error.
C13_DutyAndGpioChecks ==
    (call.op = "set_pwm" /\ call.ret # -EINVCHNL) =>
        /\ DutyInvalid(call.duty) => call.ret = -EINVDUTY
        /\ (~DutyInvalid(call.duty) /\ GpioInvalid(call.gpio)) =>
               call.ret = -EINVGPIO
        /\ (~DutyInvalid(call.duty) /\ ~GpioInvalid(call.gpio)) =>
               call.ret \notin {-EINVDUTY, -EINVGPIO}

\* duty 100 on pin 31 accepted, after duty 0 on pin 0 was
C13_BoundsAccepted ==
    /\ call.op = "set_pwm" /\ call.ret = 0
    /\ call.duty = FloatOfInt(100) /\ call.gpio = <<31>>
    /\ gpio_fsel[0] = 1

\* C14: a set_pwm that returns an error leaves the channel structures
\* (selected buffer, seq_built, recorded frequency, duty and CB counts), the
\* CBs and masks of both buffers, the GPIO function selection and the DMA
\* registers unchanged, with everything else.
C14_RejectedSetPwmNoEffect ==
    [][(call'.op = "set_pwm" /\ call'.ret < 0) =>
          UNCHANGED <<clock_div, pwm_rng, allocated_pages, pulse_width_us,
                      init_state, dma_channels_status, dma_channels, cb_mem,
                      mask_mem, dma_reg, pwm_reg, gpio_fsel, gpio_level,
                      uncached_live, leaks, fault>>]_vars

\* a signal that needs more pages than allocated, refused on a channel that
\* is running
C14_RefusedWhileRunning ==
    /\ call.op = "set_pwm" /\ call.channel = 0
    /\ call.ret = -ENOMEM
    /\ dma_channels[0].enabled = 1
    /\ dma_reg[0].active

\* ------------------------------------------------------------------------
\* The arithmetic of set_pwm
\* ------------------------------------------------------------------------
\* The last call is a set_pwm that passed the channel, duty and GPIO checks
SetPwmPastArgs ==
    /\ call.op = "set_pwm"
    /\ call.ret \notin {-EINVCHNL, -EINVDUTY, -EINVGPIO}

\* floor(floor(1e6 / freq) / pulse_width / 2) = 0 for the frequency of the
\* last call: the period in us is below two pulse widths (of ticks / 500 us)
ClaimedBaseIsZero ==
    LET period == PeriodUs(call.freq)
    IN  /\ period.h = 0
        /\ period.l < Pow2(20)
        /\ period.l * 250 < Ticks(pulse_width_us)

\* C15: with a valid channel, duty and GPIO list, set_pwm returns
\* -EFREQNOTMET exactly when floor(floor(1e6 / freq) / pulse_width / 2) is 0,
\* and a set_pwm that returns 0 has built a ring with at least one paced CB.
C15_FreqNotMetExactly ==
    SetPwmPastArgs =>
        /\ (call.ret = -EFREQNOTMET) <=> ClaimedBaseIsZero
        /\ call.ret = 0 =>
               dma_channels[call.channel].cb_seq_num
                   > (IF DutyTrivial(call.duty) THEN 1 ELSE 2)

\* the last call is set_pwm(0, {26}, 1, 1 Hz, 75 %) on a requested channel
\* in the configuration config_pwm(16, 5000) leaves
Example1Hz75 ==
    /\ call.op = "set_pwm" /\ call.ret # -EINVCHNL
    /\ call.gpio = <<26>>
    /\ call.freq = FloatOfInt(1) /\ call.duty = FloatOfInt(75)
    /\ allocated_pages = 16
    /\ pulse_width_us = [rng |-> 610, div |-> 4095]

BaseCount ==
    dma_channels[call.channel].cb_seq_num
        - (IF DutyTrivial(call.duty) THEN 1 ELSE 2)

\* C17: after every set_pwm that returns 0, the recorded set and clear
\* counts add up to the base CB count (the sequence without its 1 or 2
\* boundary CBs) and the set count does not exceed it.
C17_CountsAddUp ==
    SetPwmReturned0 =>
        LET ch == dma_channels[call.channel]
        IN  /\ ch.cb_set_num + ch.cb_clr_num = BaseCount
            /\ ch.cb_set_num <= BaseCount

\* |a - b| * n <= 50 for floats a, b >= 0 and an integer n > 0, in units
\* of 2^e, e the smaller exponent
WithinHalfStep(a, b, n) ==
    LET e  == IF a.m = 0 THEN b.e ELSE IF b.m = 0 \/ a.e < b.e THEN a.e
              ELSE b.e
        ua == IF a.m = 0 THEN 0 ELSE a.m * Pow2(a.e - e)
        ub == IF b.m = 0 THEN 0 ELSE b.m * Pow2(b.e - e)
    IN  (IF ua >= ub THEN ua - ub ELSE ub - ua) * n <= 50 * Pow2(-e)

\* C18: the achieved duty get_duty_cycle_pwm reports for an accepted signal
\* differs from the requested duty by at most half the resolution
\* 100 / seq, seq the base CB count, or is exactly 0 or 100.
C18_AchievedDutyNearRequested ==
    (/\ call.op = "get_duty_cycle_pwm" /\ call.ret = 0
     /\ dma_channels[call.channel].seq_built = 1) =>
        LET ch   == dma_channels[call.channel]
            base == ch.cb_seq_num
                        - (IF DutyTrivial(ch.pwm_d_des) THEN 1 ELSE 2)
        IN  \/ call.value = FloatZero
            \/ call.value = FloatOfInt(100)
            \/ WithinHalfStep(call.value, ch.pwm_d_des, base)

\* ------------------------------------------------------------------------
\* Release of channels
\* ------------------------------------------------------------------------
\* C19: free_pwm on a requested channel returns 0, releases six uncached
\* blocks, resets enabled and seq_built to 0 and marks the slot (and no
\* other) free; free_pwm on a slot that is free returns -EINVCHNL and
\* releases nothing, and a slot stays free until request_pwm hands it out.
C19_FreeOnce ==
    [][/\ (call'.op = "free_pwm" /\ ~NotRequested(call'.channel)) =>
              /\ call'.ret = 0
              /\ uncached_live' = uncached_live - 6
              /\ dma_channels'[call'.channel].enabled = 0
              /\ dma_channels'[call'.channel].seq_built = 0
              /\ dma_channels_status' =
                     [dma_channels_status EXCEPT ![call'.channel] = 1]
       /\ (call'.op = "free_pwm" /\ NotRequested(call'.channel)) =>
              /\ call'.ret = -EINVCHNL
              /\ uncached_live' = uncached_live
              /\ dma_channels_status' = dma_channels_status
       /\ \A c \in Channels :
              (dma_channels_status[c] # 0 /\ dma_channels_status'[c] = 0) =>
                  call'.op = "request_pwm"]_vars

\* free_pwm refused on a channel that ran a signal and was freed: all its
\* blocks are released and its flags reset
C19_SecondFreeRefused ==
    /\ call.op = "free_pwm" /\ call.channel = 0
    /\ call.ret = -EINVCHNL
    /\ init_state = 1
    /\ dma_channels_status[0] # 0
    /\ dma_channels[0].cb_seq_num > 0
    /\ dma_channels[0].enabled = 0 /\ dma_channels[0].seq_built = 0
    /\ uncached_live = 0

\* C20: once the termination-signal handler has run, every pool slot is
\* free, every channel that was enabled has its DMA ACTIVE bit cleared and
\* no uncached allocation is outstanding.
C20_HandlerReleasesAll ==
    call.op = "signal_handler" =>
        /\ \A c \in Channels : dma_channels_status[c] = 1
        /\ \A c \in call.enabled : ~dma_reg[c].active
        /\ uncached_live = 0

\* ------------------------------------------------------------------------
\* Termination signals inside an operation
\* ------------------------------------------------------------------------
\* C21: whenever a termination signal has been handled, between two calls
\* or inside a public operation, no uncached block has been released after
\* it had been released.
C21_NoReleaseAfterRelease ==
    call.op \in {"signal_handler", "signal_in_free_pwm"} =>
        call.released_again = 0

\* ------------------------------------------------------------------------
\* Initialisation
\* ------------------------------------------------------------------------
\* C22: the clock-manager / PWM-controller registers are written by the
\* first successful request_pwm and by no later step: the step that sets
\* init_state writes the configured divisor and range, init_state never
\* goes back to 0, and once it is 1 no request_pwm, free_pwm or config_pwm
\* writes the registers again.
C22_InitOnce ==
    [][/\ (init_state = 0 /\ init_state' = 1) =>
              /\ call'.op = "request_pwm" /\ call'.ret >= 0
              /\ pwm_reg' = [pwmdiv |-> clock_div, rng1 |-> pwm_rng]
              /\ pwm_reg' # pwm_reg
       /\ init_state' = init_state => pwm_reg' = pwm_reg
       /\ init_state = 1 => init_state' = 1]_vars

\* a request_pwm granted after the engine was initialised, freed and
\* configured again: the registers still hold the first configuration
C22_LaterRequestKeepsRegs ==
    /\ call.op = "request_pwm" /\ call.ret >= 0
    /\ init_state = 1
    /\ pwm_reg # [pwmdiv |-> clock_div, rng1 |-> pwm_rng]

\* ------------------------------------------------------------------------
\* Arming and stopping a channel
\* ------------------------------------------------------------------------
\* C23: every execution of enable_pwm, on its own or from a set_pwm on an
\* enabled channel, writes the DMA registers in the order set ABORT, clear
\* ACTIVE, set END, set RESET, load CONBLK_AD, write priority / wait bits,
\* set ACTIVE; the address loaded is the head of the selected buffer, and
\* the channel is left active at that address.
C23_ArmOrder ==
    (/\ call.op \in {"enable_pwm", "set_pwm"}
     /\ call.ret = 0
     /\ call.op = "set_pwm" => call.entry.enabled # 0) =>
        LET head == cb_base_bus_addr(call.channel,
                        dma_channels[call.channel].selected_cb_buf)
        IN  /\ [i \in 1 .. Len(call.writes) |-> call.writes[i].write] =
                   <<"set ABORT", "clear ACTIVE", "set END", "set RESET",
                     "load CONBLK_AD", "write PRIO WAIT", "set ACTIVE">>
            /\ call.writes[5].value = head
            /\ dma_reg[call.channel] = [active |-> TRUE, conblk_ad |-> head]

\* enable_pwm run by a set_pwm on an enabled channel
C23_ArmedBySetPwm ==
    /\ call.op = "set_pwm" /\ call.ret = 0
    /\ call.entry.enabled # 0
    /\ Len(call.writes) = 7

\* ---------------------------------------------------------------------------
\* C24: disable_pwm on a requested channel returns 0; afterwards the channel's
\* ACTIVE bit is clear, enabled = 0 and no pin of the selected buffer's set
\* mask is high (each was written to GPCLR0); seq_built and selected_cb_buf are
\* unchanged, so enable_pwm returns what it returned before and arms the same
\* ring: 0 and the selected ring's head once a signal was set.
C24_DisableStops ==
    [][\A c \in Channels :
          (call'.op = "disable_pwm" /\ call'.channel = c
              /\ check_channel(c) = 0) =>
          LET b == dma_channels[c].selected_cb_buf
          IN  /\ call'.ret = 0
              /\ dma_reg'[c].active = FALSE
              /\ dma_channels'[c].enabled = 0
              /\ mask_mem[c][b].written =>
                     /\ call'.cleared = mask_mem[c][b].set
                     /\ gpio_level' \cap mask_mem[c][b].set = {}
              /\ gpio_level' = gpio_level \ call'.cleared
              /\ dma_channels'[c].seq_built = dma_channels[c].seq_built
              /\ dma_channels'[c].selected_cb_buf = b
              /\ cb_mem' = cb_mem /\ mask_mem' = mask_mem
              /\ EnableRet(c)' = EnableRet(c)
              /\ dma_channels[c].seq_built = 1 =>
                     /\ EnableRet(c)' = 0
                     /\ ArmedReg(c, dma_channels'[c].selected_cb_buf)
                            = ArmedReg(c, b)]_vars

\* an enabled channel with a built ring and a pin high is disabled
C24_DisabledWhileHigh ==
    /\ call.op = "disable_pwm"
    /\ call.ret = 0
    /\ call.cleared \cap call.high # {}
    /\ dma_channels[call.channel].seq_built = 1
    /\ dma_channels[call.channel].enabled = 0
    /\ gpio_level \cap call.cleared = {}

\* ---------------------------------------------------------------------------
\* C25: when the board revision matches no row of the revision table, the
\* first request_pwm returns -ENOPIVER, reserves no slot, touches no
\* peripheral register and leaves the engine uninitialised.
C25_UnlistedBoardRefused ==
    (/\ call.op \in {"request_pwm", "request_pwm_crash"}
     /\ call.entry.init_state = 0
     /\ get_pi_version__(call.entry.revision, -1) = -1)
    => /\ call.op = "request_pwm"
       /\ call.ret = -ENOPIVER
       /\ dma_channels_status = call.entry.status
       /\ uncached_live = call.entry.live
       /\ init_state = 0

\* ---------------------------------------------------------------------------
\* C26: after every set_pwm that returns 0 the achieved duty equals the
\* requested duty when that is exactly 0 or exactly 100; for every other
\* duty, fractional duties below 1 included, it is a multiple k * res of the
\* resolution res = 100 / seq that lies within half a step of the requested
\* duty.
C26_SnappedUnlessExact ==
    SetPwmReturned0 =>
        LET ch  == dma_channels[call.channel]
            des == ch.pwm_d_des
            act == ch.pwm_d_act
            k0  == FloatTrunc(FloatDiv(des, PwmDRes(BaseCount)))
        IN  IF des \in {FloatZero, FloatOfInt(100)}
            THEN act = des
            ELSE /\ \E k \in {k0, k0 + 1} :
                        act = FloatMul(FloatOfInt(k), PwmDRes(BaseCount))
                 /\ WithinHalfStep(act, des, BaseCount)

\* ---------------------------------------------------------------------------
\* C27: in the ring of every set_pwm that returns 0, CB 0 copies the set
\* mask to GPSET0 when the requested duty is not 0 and the clear mask to
\* GPCLR0 when it is 0; a ring for duty 0 has no CB that targets GPSET0 and
\* a ring for duty 100 has no CB that targets GPCLR0.
C27_LeadingCbFollowsDuty ==
    SetPwmReturned0 =>
        LET c   == call.channel
            b   == dma_channels[c].selected_cb_buf
            n   == dma_channels[c].cb_seq_num
            cb0 == CbInMem(cb_mem[c][b], 0)
        IN  /\ call.duty # FloatZero =>
                   cb0.src = "set_mask" /\ cb0.dst = "gpset0"
            /\ call.duty = FloatZero =>
                   /\ cb0.src = "clear_mask" /\ cb0.dst = "gpclr0"
                   /\ \A i \in 0 .. n - 1 :
                          CbInMem(cb_mem[c][b], i).dst # "gpset0"
            /\ call.duty = FloatOfInt(100) =>
                   \A i \in 0 .. n - 1 :
                       CbInMem(cb_mem[c][b], i).dst # "gpclr0"

\* ---------------------------------------------------------------------------
\* C28: in the ring of every set_pwm that returns 0 the DREQ-paced FIFO CBs
\* number cb_set_num + cb_clr_num; cb_set_num of them lie between CB 0 and
\* the clear-boundary CB and cb_clr_num after it, and with no clear-boundary
\* CB all of them follow CB 0.
C28_WaitCbCounts ==
    SetPwmReturned0 =>
        LET c    == call.channel
            b    == dma_channels[c].selected_cb_buf
            n    == dma_channels[c].cb_seq_num
            set  == dma_channels[c].cb_set_num
            clr  == dma_channels[c].cb_clr_num
            fifo == {i \in 0 .. n - 1 :
                        CbInMem(cb_mem[c][b], i).dst = "pwmfif1"}
            bnd  == {i \in 1 .. n - 1 :
                        CbInMem(cb_mem[c][b], i).dst = "gpclr0"}
        IN  /\ Cardinality(fifo) = set + clr
            /\ Cardinality(bnd) <= 1
            /\ 0 \notin fifo
            /\ \A k \in bnd :
                   /\ Cardinality({i \in fifo : i < k}) = set
                   /\ Cardinality({i \in fifo : i > k}) = clr
            /\ bnd = {} => fifo = 1 .. n - 1

\* ---------------------------------------------------------------------------
\* C29: after every set_pwm that returns 0 the function-select field of
\* every listed pin is 001 (output), whatever it held before the call, and
\* the field of every unlisted pin is what it was.
C29_ListedPinsOutput ==
    [][(call'.op = "set_pwm" /\ call'.ret = 0) =>
          \A p \in 0 .. 31 :
              IF \E i \in 1 .. Len(call'.gpio) : call'.gpio[i] = p
              THEN gpio_fsel'[p] = 1
              ELSE gpio_fsel'[p] = gpio_fsel[p]]_vars

\* ---------------------------------------------------------------------------
\* C30: uncached_virt_to_bus_addr__ returns bus_addr + (ptr - virt_addr) for
\* every ptr at an offset in [0, size) and the failure sentinel for every
\* ptr outside the block, the address one past the end (offset = size) and
\* addresses below virt_addr included.
C30_TranslatesInsideOnly ==
    call.op = "uncached_virt_to_bus_addr__" =>
        IF call.offset >= 0 /\ call.offset < call.size
        THEN call.ret = call.bus_addr + call.offset
        ELSE call.ret = -1

\* ------------------------------------------------------------------------
\* Engine configuration and hardware registers
\* ------------------------------------------------------------------------
\* C31: after any sequence of config_pwm calls, accepted or refused, the
\* clock divisor lies in 1 .. 4095 and the PWM range is at least 1, so
\* clock_div << 12 stays below bit 24 of the clock-manager register.
C31_DivisorInField ==
    /\ clock_div \in 1 .. MAX_CLOCK_DIV
    /\ pwm_rng >= 1
    /\ clock_div * Pow2(12) < Pow2(24)

\* a divisor clamped to 1 right after one clamped to 4095
C31_ClampedBothWays ==
    /\ call.op = "config_pwm" /\ call.ret = 0
    /\ call.entry.clock_div = MAX_CLOCK_DIV
    /\ clock_div = 1

\* C32: whenever a channel is requested, the divisor and range last written
\* to the clock-manager divisor register and to RNG1 are the engine's
\* current clock_div and pwm_rng.
C32_RegsMatchConfig ==
    AnyChannelRequested =>
        pwm_reg = [pwmdiv |-> clock_div, rng1 |-> pwm_rng]

\* C33: a config_pwm that returns -EINVPW leaves the engine configuration
\* as it was: allocated_pages, clock_div, pwm_rng and pulse_width_us keep
\* the values they had before the call.
C33_RefusedConfigKeepsAll ==
    (call.op = "config_pwm" /\ call.ret = -EINVPW) =>
        /\ allocated_pages = call.entry.allocated_pages
        /\ clock_div = call.entry.clock_div
        /\ pwm_rng = call.entry.pwm_rng
        /\ pulse_width_us = call.entry.pulse_width_us

\* C34: the divisor, range and achieved pulse width an accepted
\* config_pwm(pages, pw) leaves depend on pw alone: they are the ones the
\* same call leaves on an engine never configured before (range
\* DEFAULT_PWM_RNG), whatever config_pwm calls came earlier.
C34_ConfigForgetsHistory ==
    (call.op = "config_pwm" /\ call.ret = 0) =>
        \E conv \in ConvOutcomes :
            LET cdt == ClockDivTemp(call.pulse_width, DEFAULT_PWM_RNG, conv)
                prt == PwmRngTemp(call.pulse_width, DEFAULT_PWM_RNG, cdt,
                                  conv)
            IN  /\ clock_div = ClockDivClamped(cdt)
                /\ pwm_rng = U32ToInt(prt)
                /\ pulse_width_us = [rng |-> U32ToInt(prt),
                                     div |-> ClockDivClamped(cdt)]

\* ------------------------------------------------------------------------
\* Channel flags and uncached memory
\* ------------------------------------------------------------------------
\* C35: in every reachable state a channel whose enabled flag is set is
\* requested and has seq_built = 1, and a free slot has enabled = 0 and
\* seq_built = 0.
C35_FlagsConsistent ==
    \A c \in Channels :
        /\ dma_channels[c].enabled # 0 =>
               dma_channels_status[c] = 0 /\ dma_channels[c].seq_built = 1
        /\ dma_channels_status[c] # 0 =>
               dma_channels[c].enabled = 0 /\ dma_channels[c].seq_built = 0

\* a channel that was enabled has been freed
C35_FreedWhileEnabled ==
    /\ call.op = "free_pwm" /\ call.ret = 0
    /\ call.enabled # 0
    /\ dma_channels_status[call.channel] # 0
    /\ dma_channels[call.channel].enabled = 0

\* C36: between public operations the number of outstanding uncached
\* allocations is six times the number of requested channels, and zero
\* when every channel is free, for any sequence of request_pwm and free_pwm,
\* requests made with a full pool included.
C36_SixBlocksPerChannel ==
    ~fault =>
        /\ uncached_live = 6 * Held
        /\ (\A c \in Channels : dma_channels_status[c] # 0) =>
               uncached_live = 0

\* ------------------------------------------------------------------------
\* Pin levels after a channel is stopped
\* ------------------------------------------------------------------------
\* C37: after disable_pwm or free_pwm returns on a channel, every pin of
\* every ring the DMA executed on that channel since it was enabled is low,
\* the pins of a ring replaced by a live set_pwm with another pin list
\* included.  In SpecPins pins are low at the start and are raised by the
\* rings of channel 0 alone, so no pin may be high once channel 0 is stopped.
C37_StoppedChannelPinsLow ==
    (/\ call.op \in {"disable_pwm", "free_pwm"}
     /\ call.ret = 0 /\ call.channel = 0) =>
        gpio_level = {}


\* C38: disable_pwm or free_pwm on a requested channel for which no set_pwm
\* has succeeded since it was requested (seq_built = 0) clears no GPIO pin:
\* every pin has the same level before and after the call.
C38_UnsetChannelClearsNoPin ==
    [][\A c \in Channels :
           (/\ call'.op \in {"disable_pwm", "free_pwm"}
            /\ call'.channel = c
            /\ check_channel(c) = 0
            /\ dma_channels[c].seq_built = 0) =>
               gpio_level' = gpio_level]_vars


\* ------------------------------------------------------------------------
\* set_pwm on a channel that is not enabled
\* ------------------------------------------------------------------------
\* C39: set_pwm on a requested channel whose enabled flag is 0 writes no DMA
\* controller register and leaves enabled = 0; the DMA of a channel that is
\* not enabled becomes active only through a successful enable_pwm on it.
C39_IdleSetPwmLeavesDma ==
    [][\A c \in Channels :
           /\ (/\ call'.op \in {"set_pwm", "set_pwm_crash"}
               /\ call'.channel = c
               /\ check_channel(c) = 0
               /\ dma_channels[c].enabled = 0) =>
                  /\ dma_reg' = dma_reg
                  /\ dma_channels'[c].enabled = 0
                  /\ (call'.op = "set_pwm" /\ call'.ret = 0) =>
                         call'.writes = << >>
           /\ (/\ dma_channels[c].enabled = 0
               /\ ~dma_reg[c].active
               /\ dma_reg'[c].active) =>
                  /\ call'.op = "enable_pwm"
                  /\ call'.channel = c
                  /\ call'.ret = 0]_vars

\* a set_pwm accepted on a channel that was not enabled: the ring is built
\* and the DMA is idle
C39_SetWhileIdle ==
    /\ call.op = "set_pwm"
    /\ call.ret = 0
    /\ call.entry.enabled = 0
    /\ dma_channels[call.channel].seq_built = 1
    /\ ~dma_reg[call.channel].active


\* ------------------------------------------------------------------------
\* The order of free_pwm
\* ------------------------------------------------------------------------
\* ACTIVE of the channel just before step i of a free_pwm that found it as
\* `active`: the last of "clear ACTIVE" and "set RESET" before i cleared it
StillActiveAt(steps, active, i) ==
    /\ active
    /\ \A j \in 1 .. (i - 1) : steps[j] \notin {"clear ACTIVE", "set RESET"}

ReleaseSteps ==
    {"release cb_base 0", "release set_mask 0", "release clear_mask 0",
     "release cb_base 1", "release set_mask 1", "release clear_mask 1"}

\* C40: free_pwm aborts and resets the channel's DMA, leaving ACTIVE
\* cleared, before it releases any of the channel's CB or mask buffers: no
\* release step of a free_pwm comes while the channel's DMA is still active,
\* the DMA is stopped when free_pwm returns, and an active DMA channel is
\* always a requested one, whose buffers are allocated.
C40_StoppedBeforeRelease ==
    [][/\ \A c \in Channels :
              (call'.op = "free_pwm" /\ call'.channel = c /\ call'.ret = 0) =>
                  /\ \A i \in 1 .. Len(call'.steps) :
                         call'.steps[i] \in ReleaseSteps =>
                             ~StillActiveAt(call'.steps, call'.active, i)
                  /\ ReleaseSteps \subseteq
                         {call'.steps[i] : i \in 1 .. Len(call'.steps)}
                  /\ ~dma_reg'[c].active
                  /\ dma_channels_status'[c] = 1
       /\ \A c \in Channels :
              dma_reg'[c].active => dma_channels_status'[c] = 0]_vars

\* free_pwm returned 0 on a channel whose DMA was running a ring
C40_FreedWhileRunning ==
    /\ call.op = "free_pwm"
    /\ call.ret = 0
    /\ call.active
    /\ ~dma_reg[call.channel].active
    /\ uncached_live = 0

====
